---- MODULE Spec2Model ----
(***************************************************************************)
(* ConsultorVirtualBackend: the ledger aggregator (aging, open listings,   *)
(* DSO/DPO), the intent classifier, the orchestration router and the       *)
(* report synthesizer, as state machines translated from the Python        *)
(* sources under src/app.                                                  *)
(*                                                                         *)
(* Money is Numeric(14,2): amounts are integers counted in cents, the      *)
(* Decimal accumulators of the code are exact integer sums.  Dates are day *)
(* numbers.  Text is a sequence of one-character strings so that the       *)
(* code's substring tests (k in q_low) are computed, not assumed.          *)
(***************************************************************************)
EXTENDS Integers, Sequences, FiniteSets, Bags, TLC

VARIABLES
    ledger,     \* the invoice table (factura_cxc / factura_cxp): a bag of rows
    out,        \* the value returned by the last ledger operation
    question,   \* the text handed to route_intent
    lastWord,   \* position in Vocabulary of the last word of the question
    nWords,     \* number of words of the question
    ipc,        \* where route_intent stands: "typing", "llm", "done"
    intent,     \* the Intent route_intent returned
    trace,      \* the module results handed to the synthesizer
    narrative,  \* what the narrative backend did with the synthesizer's prompt
    spc,        \* where the synthesizer stands: "trace", "llm", "done"
    result,     \* what Agent.handle of av_gerente returned, or that it raised
    req,        \* the request Router.dispatch is serving
    rpc,        \* where dispatch stands: "ready", "modules", "contable", "gerente", "done", "raised"
    seq,        \* agent_sequence of the dispatch
    calls,      \* the handle calls made so far, each with the payload it was given
    rtrace,     \* the local trace of the dispatch: one entry per module result
    resp,       \* what dispatch returned
    per,        \* the text, the current instant and the override handed to the date functions
    pwin,       \* what the date function applied last returned
    ppc,        \* where the date part stands: "input", "done"
    kb          \* the rule registry of the process: load_kb's cache, the loads made, the rules of the last request

ledgerVars == <<ledger, out>>
intentVars == <<question, lastWord, nWords, ipc, intent>>
synthVars == <<trace, narrative, spc, result>>
routerVars == <<req, rpc, seq, calls, rtrace, resp>>
periodVars == <<per, pwin, ppc>>
kbVars == <<kb>>
vars == <<ledgerVars, intentVars, synthVars, routerVars, periodVars, kbVars>>

\* the variables a specification leaves alone
NotLedger == <<intentVars, synthVars, routerVars, periodVars, kbVars>>
NotIntent == <<ledgerVars, synthVars, routerVars, periodVars, kbVars>>
NotSynth == <<ledgerVars, intentVars, routerVars, periodVars, kbVars>>
NotRouter == <<ledgerVars, intentVars, synthVars, periodVars, kbVars>>
NotPeriod == <<ledgerVars, intentVars, synthVars, routerVars, kbVars>>
NotKb == <<ledgerVars, intentVars, synthVars, routerVars, periodVars>>

(***************************************************************************)
(* Resting values of the parts a specification does not exercise           *)
(***************************************************************************)
LedgerIdle ==
    /\ ledger = EmptyBag
    /\ out = [op |-> "none"]

IntentIdle ==
    /\ question = << >>
    /\ lastWord = 0
    /\ nWords = 0
    /\ ipc = "idle"
    /\ intent = [src |-> "none"]

SynthIdle ==
    /\ trace = << >>
    /\ narrative = [kind |-> "none"]
    /\ spc = "idle"
    /\ result = [status |-> "none"]

RouterIdle ==
    /\ req = [entry |-> "none"]
    /\ rpc = "idle"
    /\ seq = << >>
    /\ calls = << >>
    /\ rtrace = << >>
    /\ resp = [reason |-> "none"]

PeriodIdle ==
    /\ per = [fn |-> "none"]
    /\ pwin = [status |-> "none"]
    /\ ppc = "idle"

\* nothing loaded, no request served
KbIdle == kb = [loaded |-> FALSE, rules |-> <<>>, loads |-> 0, served |-> 0, last |-> [fn |-> "none"]]

(***************************************************************************)
(* Generic helpers                                                         *)
(***************************************************************************)
Max(a, b) == IF a >= b THEN a ELSE b

RECURSIVE BagToSeq(_)
\* db.query(Factura...): the rows of the table, in the store's order
BagToSeq(B) ==
    IF BagToSet(B) = {} THEN <<>>
    ELSE LET e == CHOOSE x \in BagToSet(B) : TRUE
         IN  <<e>> \o BagToSeq(B (-) SetToBag({e}))

RECURSIVE SeqToBag(_)
SeqToBag(s) == IF s = <<>> THEN EmptyBag ELSE SetToBag({Head(s)}) (+) SeqToBag(Tail(s))

RECURSIVE SumSaldo(_)
\* SUM(monto - monto_pagado) over rows
SumSaldo(s) == IF s = <<>> THEN 0 ELSE (Head(s).monto - Head(s).pagado) + SumSaldo(Tail(s))

(***************************************************************************)
(* Bounds and value sets of the ledger model                               *)
(***************************************************************************)
MaxRecords == 2
RefDay == 200

RefDates == {RefDay, RefDay + 31}
DueDays == {RefDay - 95, RefDay - 10, RefDay, RefDay + 20}
IssueDays == {RefDay - 120, RefDay + 5}
Windows == { <<RefDay - 15, RefDay + 10>>, <<RefDay - 130, RefDay + 40>> }
Limits == {1, 5}
\* (monto, monto_pagado) in cents: unpaid, partially paid, paid in full, overpaid
Amounts == { <<100000, 0>>, <<100000, 40000>>, <<50000, 50000>>, <<50000, 70000>> }

\* A row of factura_cxc / factura_cxp
Factura(ent, issue, hasDue, due, monto, pagado, pagada) ==
    [ent |-> ent, issue |-> issue, hasDue |-> hasDue, due |-> due,
     monto |-> monto, pagado |-> pagado, pagada |-> pagada]

LedgerRows ==
    { Factura(1, i, TRUE, d, a[1], a[2], p) :
        i \in IssueDays, d \in DueDays, a \in Amounts, p \in BOOLEAN }
    \cup
    { Factura(1, i, FALSE, 0, a[1], a[2], p) :
        i \in IssueDays, a \in Amounts, p \in BOOLEAN }

(***************************************************************************)
(* Ledger aggregator: aging                                                *)
(***************************************************************************)
\* saldo = monto - monto_pagado, not clamped; both directions compute the same
_saldo_cxc(f) == f.monto - f.pagado
_saldo_cxp(f) == f.monto - f.pagado

\* repo helper: saldo clamped at 0 (also SQL greatest(monto - coalesce(pagado,0), 0))
_saldo(monto, pagado) == IF monto - pagado > 0 THEN monto - pagado ELSE 0

ZeroAging ==
    [overdue_1_30 |-> 0, overdue_31_60 |-> 0, overdue_61_90 |-> 0, overdue_90_plus |-> 0,
     current_0_7 |-> 0, current_8_15 |-> 0, current_16_30 |-> 0, current_31_plus |-> 0,
     sin_fecha_limite |-> 0, total_outstanding |-> 0, total_overdue |-> 0,
     total_current |-> 0, open_invoices |-> 0]

\* the if/elif chain of the overdue branch
OverdueBucketMut(days_overdue) ==
    IF 1 <= days_overdue /\ days_overdue <= 30 THEN "overdue_1_30"
    ELSE IF 31 <= days_overdue /\ days_overdue <= 60 THEN "overdue_31_60"
    ELSE IF 61 <= days_overdue /\ days_overdue <= 90 THEN "overdue_61_90"
    ELSE "none"

OverdueBucket(days_overdue) ==
    IF 1 <= days_overdue /\ days_overdue <= 30 THEN "overdue_1_30"
    ELSE IF 31 <= days_overdue /\ days_overdue <= 60 THEN "overdue_31_60"
    ELSE IF 61 <= days_overdue /\ days_overdue <= 90 THEN "overdue_61_90"
    ELSE "overdue_90_plus"

\* a current branch whose first bucket runs one day longer
CurrentBucketWeek(days_to_due) ==
    IF 0 <= days_to_due /\ days_to_due <= 8 THEN "current_0_7"
    ELSE IF 9 <= days_to_due /\ days_to_due <= 15 THEN "current_8_15"
    ELSE IF 16 <= days_to_due /\ days_to_due <= 30 THEN "current_16_30"
    ELSE "current_31_plus"

\* the if/elif chain of the current branch
CurrentBucket(days_to_due) ==
    IF 0 <= days_to_due /\ days_to_due <= 7 THEN "current_0_7"
    ELSE IF 8 <= days_to_due /\ days_to_due <= 15 THEN "current_8_15"
    ELSE IF 16 <= days_to_due /\ days_to_due <= 30 THEN "current_16_30"
    ELSE "current_31_plus"

Bump(acc, key, saldo) == IF key = "none" THEN acc ELSE [acc EXCEPT ![key] = @ + saldo]

\* one iteration of the for-loop of build_aging_cx{c,p}_db
AgingStep(acc, f, ref_date) ==
    LET saldo == _saldo_cxc(f) IN
    IF saldo <= 0 THEN acc
    ELSE
      LET a1 == [acc EXCEPT !.open_invoices = @ + 1,
                            !.total_outstanding = @ + saldo]
      IN
      IF ~f.hasDue THEN [a1 EXCEPT !.sin_fecha_limite = @ + saldo]
      ELSE IF ref_date > f.due
           THEN Bump([a1 EXCEPT !.total_overdue = @ + saldo],
                     OverdueBucket(ref_date - f.due), saldo)
           ELSE Bump([a1 EXCEPT !.total_current = @ + saldo],
                     CurrentBucket(f.due - ref_date), saldo)

RECURSIVE AgingLoop(_, _, _)
AgingLoop(acc, rows, ref_date) ==
    IF rows = <<>> THEN acc
    ELSE AgingLoop(AgingStep(acc, Head(rows), ref_date), Tail(rows), ref_date)

NotPagada(f) == ~f.pagada

build_aging_cxc_db(ref_date) == AgingLoop(ZeroAging, BagToSeq(ledger), ref_date)

\* CxP iterates db.query(FacturaCXP).filter(FacturaCXP.pagada == False)
build_aging_cxp_db(ref_date) ==
    AgingLoop(ZeroAging, SelectSeq(BagToSeq(ledger), NotPagada), ref_date)

(***************************************************************************)
(* Ledger aggregator: listings                                             *)
(***************************************************************************)
\* key (days_overdue, outstanding), reverse=True
OverdueDesc(x, y) ==
    \/ x.days_overdue > y.days_overdue
    \/ x.days_overdue = y.days_overdue /\ x.outstanding > y.outstanding

order_rank(status) ==
    IF status = "overdue" THEN 0 ELSE IF status = "open_on_time" THEN 1 ELSE 2

\* key (order_rank[status], -days_overdue, -outstanding)
OpenOrder(x, y) ==
    \/ order_rank(x.status) < order_rank(y.status)
    \/ order_rank(x.status) = order_rank(y.status) /\ x.days_overdue > y.days_overdue
    \/ order_rank(x.status) = order_rank(y.status) /\ x.days_overdue = y.days_overdue
       /\ x.outstanding > y.outstanding

\* the sort key in use
Before(key, x, y) ==
    IF key = "overdue_desc" THEN OverdueDesc(x, y)
    ELSE IF key = "open_order" THEN OpenOrder(x, y)
    ELSE x.outstanding > y.outstanding

\* list.sort(key=...): stable, x goes before the first y it strictly precedes
RECURSIVE InsertSorted(_, _, _)
InsertSorted(x, s, key) ==
    IF s = <<>> THEN <<x>>
    ELSE IF Before(key, x, Head(s)) THEN <<x>> \o s
    ELSE <<Head(s)>> \o InsertSorted(x, Tail(s), key)

RECURSIVE SortBy(_, _)
SortBy(s, key) ==
    IF s = <<>> THEN <<>>
    ELSE InsertSorted(s[Len(s)], SortBy(SubSeq(s, 1, Len(s) - 1), key), key)

Take(s, n) == SubSeq(s, 1, IF Len(s) < n THEN Len(s) ELSE n)

\* rows.append({...}) of the top-overdue loop; the loop skips what is not overdue
RECURSIVE TopOverdueRows(_, _)
TopOverdueRows(rows, ref_date) ==
    IF rows = <<>> THEN <<>>
    ELSE LET f == Head(rows)
             saldo == _saldo_cxc(f)
             rest == TopOverdueRows(Tail(rows), ref_date)
         IN  IF saldo <= 0 THEN rest
             ELSE IF ~f.hasDue THEN rest
             ELSE IF ref_date - f.due <= 0 THEN rest
             ELSE <<[row |-> f, status |-> "overdue", days_overdue |-> ref_date - f.due,
                     outstanding |-> saldo]>> \o rest

\* rows.append({...}) of the list-open loop
RECURSIVE ListOpenRows(_, _)
ListOpenRows(rows, ref_date) ==
    IF rows = <<>> THEN <<>>
    ELSE LET f == Head(rows)
             saldo == _saldo_cxc(f)
             rest == ListOpenRows(Tail(rows), ref_date)
             status == IF ~f.hasDue THEN "no_due_date"
                       ELSE IF ref_date - f.due > 0 THEN "overdue" ELSE "open_on_time"
             days_over == IF f.hasDue /\ ref_date - f.due > 0 THEN ref_date - f.due ELSE 0
         IN  IF saldo <= 0 THEN rest
             ELSE <<[row |-> f, status |-> status, days_overdue |-> days_over,
                     outstanding |-> saldo]>> \o rest

cxc_list_top_overdue_db(limit_n, ref_date) ==
    Take(SortBy(TopOverdueRows(BagToSeq(ledger), ref_date), "overdue_desc"), limit_n)

cxp_list_top_overdue_db(limit_n, ref_date) ==
    Take(SortBy(TopOverdueRows(SelectSeq(BagToSeq(ledger), NotPagada), ref_date),
                "overdue_desc"), limit_n)

cxc_list_open_db(ref_date) == SortBy(ListOpenRows(BagToSeq(ledger), ref_date), "open_order")

cxp_list_open_db(ref_date) ==
    SortBy(ListOpenRows(SelectSeq(BagToSeq(ledger), NotPagada), ref_date), "open_order")

(***************************************************************************)
(* Ledger repository: range and summary queries                            *)
(***************************************************************************)
RECURSIVE SumField(_, _)
SumField(s, k) == IF s = <<>> THEN 0 ELSE Head(s)[k] + SumField(Tail(s), k)

\* .filter(fecha_limite >= start, fecha_limite <= end, pagada == False); a NULL
\* fecha_limite satisfies neither comparison
DueBetweenFilter(rows, start, end) ==
    SelectSeq(rows, LAMBDA f : f.hasDue /\ f.due >= start /\ f.due <= end /\ ~f.pagada)

\* the for-loop of cxc_due_between: count and total of the rows with saldo > 0
RECURSIVE DueBetweenLoop(_, _)
DueBetweenLoop(acc, rows) ==
    IF rows = <<>> THEN acc
    ELSE LET saldo == _saldo(Head(rows).monto, Head(rows).pagado)
         IN  DueBetweenLoop(IF saldo > 0
                            THEN [count |-> acc.count + 1, total |-> acc.total + saldo]
                            ELSE acc, Tail(rows))

cxc_due_between(start, end) ==
    DueBetweenLoop([count |-> 0, total |-> 0],
                   DueBetweenFilter(BagToSeq(ledger), start, end))

\* .filter(pagada == False, monto_pagado > 0, saldo_expr > 0, fecha_emision in [start, end])
PartialFilter(rows, start, end) ==
    SelectSeq(rows, LAMBDA f : /\ ~f.pagada
                               /\ f.pagado > 0
                               /\ _saldo(f.monto, f.pagado) > 0
                               /\ f.issue >= start /\ f.issue <= end)

RECURSIVE PartialRows(_)
PartialRows(rows) ==
    IF rows = <<>> THEN <<>>
    ELSE <<[row |-> Head(rows), outstanding |-> _saldo(Head(rows).monto, Head(rows).pagado)]>>
         \o PartialRows(Tail(rows))

cxc_partial_payments(start, end) ==
    LET rows == SortBy(PartialRows(PartialFilter(BagToSeq(ledger), start, end)), "saldo_desc")
    IN  [count |-> Len(rows), total |-> SumField(rows, "outstanding"), items |-> rows]

\* SELECT COUNT(*), COALESCE(SUM(monto - monto_pagado), 0)
\*   FROM factura_cxp WHERE pagada = FALSE AND fecha_emision::date <= :as_of
cxp_open_summary_as_of(as_of) ==
    LET rows == SelectSeq(BagToSeq(ledger), LAMBDA f : ~f.pagada /\ f.issue <= as_of)
    IN  [abiertas |-> Len(rows), saldo |-> SumSaldo(rows)]

(***************************************************************************)
(* Actions of the ledger specification                                     *)
(***************************************************************************)
LedgerInit ==
    /\ ledger = EmptyBag
    /\ out = [op |-> "none"]
    /\ IntentIdle
    /\ SynthIdle
    /\ RouterIdle
    /\ PeriodIdle
    /\ KbIdle

\* the store is owned and mutated externally: a row appears
AddRecord ==
    /\ out.op = "none"
    /\ BagCardinality(ledger) < MaxRecords
    /\ \E f \in LedgerRows : ledger' = ledger (+) SetToBag({f})
    /\ UNCHANGED <<out, NotLedger>>

AgingCxc ==
    /\ out.op = "none"
    /\ \E ref \in RefDates :
         out' = [op |-> "aging", dir |-> "cxc", ref |-> ref, pack |-> build_aging_cxc_db(ref)]
    /\ UNCHANGED <<ledger, NotLedger>>

AgingCxp ==
    /\ out.op = "none"
    /\ \E ref \in RefDates :
         out' = [op |-> "aging", dir |-> "cxp", ref |-> ref, pack |-> build_aging_cxp_db(ref)]
    /\ UNCHANGED <<ledger, NotLedger>>

ListOpen ==
    /\ out.op = "none"
    /\ \E ref \in RefDates, dir \in {"cxc", "cxp"} :
         out' = [op |-> "list_open", dir |-> dir, ref |-> ref,
                 items |-> IF dir = "cxc" THEN cxc_list_open_db(ref) ELSE cxp_list_open_db(ref)]
    /\ UNCHANGED <<ledger, NotLedger>>

TopOverdue ==
    /\ out.op = "none"
    /\ \E ref \in RefDates, dir \in {"cxc", "cxp"}, n \in Limits :
         out' = [op |-> "top_overdue", dir |-> dir, ref |-> ref, limit |-> n,
                 items |-> IF dir = "cxc" THEN cxc_list_top_overdue_db(n, ref)
                           ELSE cxp_list_top_overdue_db(n, ref)]
    /\ UNCHANGED <<ledger, NotLedger>>

DueBetween ==
    /\ out.op = "none"
    /\ \E w \in Windows :
         LET r == cxc_due_between(w[1], w[2])
         IN  out' = [op |-> "due_between", dir |-> "cxc", start |-> w[1], end |-> w[2],
                     count |-> r.count, total |-> r.total]
    /\ UNCHANGED <<ledger, NotLedger>>

PartialPayments ==
    /\ out.op = "none"
    /\ \E w \in Windows :
         LET r == cxc_partial_payments(w[1], w[2])
         IN  out' = [op |-> "partial_payments", dir |-> "cxc", start |-> w[1], end |-> w[2],
                     count |-> r.count, total |-> r.total, items |-> r.items]
    /\ UNCHANGED <<ledger, NotLedger>>

OpenSummary ==
    /\ out.op = "none"
    /\ \E ref \in RefDates :
         LET r == cxp_open_summary_as_of(ref)
         IN  out' = [op |-> "open_summary", dir |-> "cxp", ref |-> ref,
                     abiertas |-> r.abiertas, saldo |-> r.saldo]
    /\ UNCHANGED <<ledger, NotLedger>>

(***************************************************************************)
(* Properties of the ledger aggregator                                     *)
(***************************************************************************)
Outstanding(f) == f.monto - f.pagado

OverdueKeys == {"overdue_1_30", "overdue_31_60", "overdue_61_90", "overdue_90_plus"}
CurrentKeys == {"current_0_7", "current_8_15", "current_16_30", "current_31_plus"}

SumOverdue(p) == p.overdue_1_30 + p.overdue_31_60 + p.overdue_61_90 + p.overdue_90_plus
SumCurrent(p) == p.current_0_7 + p.current_8_15 + p.current_16_30 + p.current_31_plus

\* the rows a direction's aging pass reads
AgingReads(dir) ==
    IF dir = "cxc" THEN BagToSeq(ledger) ELSE SelectSeq(BagToSeq(ledger), NotPagada)

\* the snapshot p at ref_date partitions the records of rows with outstanding > 0
AgingPartitions(p, rows, ref_date) ==
    LET dated == SelectSeq(rows, LAMBDA f : Outstanding(f) > 0 /\ f.hasDue)
        undated == SelectSeq(rows, LAMBDA f : Outstanding(f) > 0 /\ ~f.hasDue)
    IN  /\ SumOverdue(p) + SumCurrent(p) = SumSaldo(dated)
        /\ p.sin_fecha_limite = SumSaldo(undated)
        /\ p.open_invoices = Len(dated) + Len(undated)
        /\ SumOverdue(p) + SumCurrent(p) + p.sin_fecha_limite = p.total_outstanding
        /\ \A i \in 1..Len(dated) :
             LET one == AgingStep(ZeroAging, dated[i], ref_date)
             IN  /\ Cardinality({k \in OverdueKeys \cup CurrentKeys : one[k] # 0}) = 1
                 /\ \A k \in OverdueKeys \cup CurrentKeys :
                      one[k] \in {0, Outstanding(dated[i])}
                 /\ one.sin_fecha_limite = 0
        /\ \A i \in 1..Len(undated) :
             LET one == AgingStep(ZeroAging, undated[i], ref_date)
             IN  /\ \A k \in OverdueKeys \cup CurrentKeys : one[k] = 0
                 /\ one.sin_fecha_limite = Outstanding(undated[i])

OpenAmong(sel(_)) == SelectSeq(BagToSeq(ledger), LAMBDA f : sel(f) /\ Outstanding(f) > 0)

ItemsAllOpen(items) == \A i \in 1..Len(items) : Outstanding(items[i].row) > 0

\* C2: in every open-record operation of either direction a record with
\* paid >= gross is never listed, counted or summed, whatever its settled
\* flag: listings hold only records with gross - paid > 0, and counts and
\* totals are those of the selected records with gross - paid > 0.
C2_PaidRecordNeverCounted ==
    /\ out.op \in {"list_open", "top_overdue", "partial_payments"} => ItemsAllOpen(out.items)
    /\ out.op = "aging" =>
         LET r == SelectSeq(AgingReads(out.dir), LAMBDA f : Outstanding(f) > 0)
         IN  out.pack.open_invoices = Len(r) /\ out.pack.total_outstanding = SumSaldo(r)
    /\ out.op = "due_between" =>
         LET r == OpenAmong(LAMBDA f : f.hasDue /\ f.due >= out.start /\ f.due <= out.end
                                       /\ ~f.pagada)
         IN  out.count = Len(r) /\ out.total = SumSaldo(r)
    /\ out.op = "partial_payments" =>
         out.count = Len(out.items) /\ out.total = SumField(out.items, "outstanding")
    /\ out.op = "open_summary" =>
         LET r == OpenAmong(LAMBDA f : ~f.pagada /\ f.issue <= out.ref)
         IN  out.abiertas = Len(r) /\ out.saldo = SumSaldo(r)

(***************************************************************************)
(* Ledger repository: DSO / DPO with the confidence gate                   *)
(*                                                                         *)
(* Days are numbered from 1 January of the reported year (day 1).  Amounts *)
(* are cents; min_ratio is a number of hundredths, and the threshold is    *)
(* kept multiplied by 100 so that end_balance * min_ratio stays exact.     *)
(***************************************************************************)
MaxFlows == 3

\* day number of the first day of month m (month 13: 1 January of the next year)
FirstDay(m) ==
    CASE m = 1 -> 1 [] m = 2 -> 32 [] m = 3 -> 60 [] m = 4 -> 91 [] m = 5 -> 121
      [] m = 6 -> 152 [] m = 7 -> 182 [] m = 8 -> 213 [] m = 9 -> 244 [] m = 10 -> 274
      [] m = 11 -> 305 [] m = 12 -> 335 [] OTHER -> 366

_month_bounds(month) ==
    [start |-> FirstDay(month),
     end |-> IF month = 12 THEN FirstDay(13) ELSE FirstDay(month + 1)]

_window_bounds(end, window_days) ==
    LET wd == IF window_days <= 0 THEN 90 ELSE window_days
    IN  [start |-> end - wd, end |-> end]

\* query filter(fecha_emision < end), sum of the clamped balances
RECURSIVE SumClamped(_)
SumClamped(s) ==
    IF s = <<>> THEN 0 ELSE _saldo(Head(s).monto, Head(s).pagado) + SumClamped(Tail(s))

_ar_end(end) == SumClamped(SelectSeq(BagToSeq(ledger), LAMBDA f : f.issue < end))
_ap_end(end) == SumClamped(SelectSeq(BagToSeq(ledger), LAMBDA f : f.issue < end))

\* query filter(fecha_emision >= start, fecha_emision < end), sum of monto
_sales_between(start, end) ==
    SumField(SelectSeq(BagToSeq(ledger), LAMBDA f : f.issue >= start /\ f.issue < end),
             "monto")
_purchases_between(start, end) ==
    SumField(SelectSeq(BagToSeq(ledger), LAMBDA f : f.issue >= start /\ f.issue < end),
             "monto")

\* max(min_abs, rel), times 100
_required_denom(end_balance, min_abs_denom, min_ratio) ==
    LET ratio == IF min_ratio < 0 THEN 0 ELSE min_ratio
        rel == IF end_balance # 0 /\ ratio # 0 THEN end_balance * ratio ELSE 0
    IN  Max(min_abs_denom * 100, rel)

\* the gate of the trailing attempt, with one that only refuses an empty window
TrailingBelowZero(flow, required) == flow <= 0

TrailingBelow(flow, required) == flow * 100 < required

NoValue == [null |-> TRUE, num |-> 0, den |-> 1]

\* Decimal division by zero: decimal.DivisionByZero, InvalidOperation for 0/0
DecimalError == [method |-> "raised", error |-> "decimal.DivisionByZero"]

\* the body shared by dso and dpo once the three sums are known
CycleResult(end_balance, flow_month, flow_trailing, mb, tb, window_days, min_denominator, min_abs_denom, min_ratio) ==
    LET required == Max(_required_denom(end_balance, min_abs_denom, min_ratio),
                        min_denominator * 100)
    IN  IF flow_month * 100 >= required /\ flow_month = 0 THEN DecimalError
        ELSE IF flow_month * 100 >= required
        THEN [value |-> [null |-> FALSE, num |-> end_balance * (mb.end - mb.start),
                         den |-> flow_month],
              method |-> "month", reason |-> FALSE,
              window |-> [start |-> mb.start, end |-> mb.end, days |-> mb.end - mb.start],
              denom |-> flow_month, end_balance |-> end_balance,
              required_denom |-> required]
        ELSE IF TrailingBelow(flow_trailing, required)
        THEN [value |-> NoValue,
              method |-> "trailing_90d", reason |-> TRUE,
              window |-> [start |-> tb.start, end |-> tb.end, days |-> window_days],
              denom |-> flow_trailing, end_balance |-> end_balance,
              required_denom |-> required]
        ELSE IF flow_trailing = 0 THEN DecimalError
        ELSE [value |-> [null |-> FALSE, num |-> end_balance * window_days,
                         den |-> flow_trailing],
              method |-> "trailing_90d", reason |-> TRUE,
              window |-> [start |-> tb.start, end |-> tb.end, days |-> window_days],
              denom |-> flow_trailing, end_balance |-> end_balance,
              required_denom |-> required]

dso(month, window_days, min_denominator, min_abs_denom, min_ratio) ==
    LET mb == _month_bounds(month)
        tb == _window_bounds(mb.end, window_days)
    IN  CycleResult(_ar_end(mb.end), _sales_between(mb.start, mb.end),
                    _sales_between(tb.start, tb.end), mb, tb, window_days,
                    min_denominator, min_abs_denom, min_ratio)

dpo(month, window_days, min_denominator, min_abs_denom, min_ratio) ==
    LET mb == _month_bounds(month)
        tb == _window_bounds(mb.end, window_days)
    IN  CycleResult(_ap_end(mb.end), _purchases_between(mb.start, mb.end),
                    _purchases_between(tb.start, tb.end), mb, tb, window_days,
                    min_denominator, min_abs_denom, min_ratio)

Months == {3, 12}
WindowDays == {90, 30, 0}
MinDenominators == {100, 0}
MinAbsDenoms == {1000000, 100000, -100}
MinRatios == {-10, 0, 10, 50}
FlowIssueDays == {20, 60, 70, 91, 300, 340}
FlowAmounts == { <<100000, 0>>, <<50000, 0>>, <<1500000, 500000>>, <<1500000, 1500000>> }

FlowRows == { Factura(1, i, TRUE, i + 30, a[1], a[2], FALSE) : i \in FlowIssueDays, a \in FlowAmounts }

CycleInit ==
    /\ ledger = EmptyBag
    /\ out = [op |-> "none"]
    /\ IntentIdle
    /\ SynthIdle
    /\ RouterIdle
    /\ PeriodIdle
    /\ KbIdle

\* an invoice is issued
AddFlow ==
    /\ out.op = "none"
    /\ BagCardinality(ledger) < MaxFlows
    /\ \E f \in FlowRows : ledger' = ledger (+) SetToBag({f})
    /\ UNCHANGED <<out, NotLedger>>

Dso ==
    /\ out.op = "none"
    /\ \E m \in Months, wd \in WindowDays, md \in MinDenominators,
          ma \in MinAbsDenoms, mr \in MinRatios :
         \E pack \in {dso(m, wd, md, ma, mr)} :
           out' = [op |-> IF pack.method = "raised" THEN "raised" ELSE "dso", fn |-> "dso",
                   month |-> m, window_days |-> wd, min_denominator |-> md,
                   min_abs_denom |-> ma, min_ratio |-> mr, pack |-> pack]
    /\ UNCHANGED <<ledger, NotLedger>>

Dpo ==
    /\ out.op = "none"
    /\ \E m \in Months, wd \in WindowDays, md \in MinDenominators,
          ma \in MinAbsDenoms, mr \in MinRatios :
         \E pack \in {dpo(m, wd, md, ma, mr)} :
           out' = [op |-> IF pack.method = "raised" THEN "raised" ELSE "dpo", fn |-> "dpo",
                   month |-> m, window_days |-> wd, min_denominator |-> md,
                   min_abs_denom |-> ma, min_ratio |-> mr, pack |-> pack]
    /\ UNCHANGED <<ledger, NotLedger>>

CycleNext == AddFlow \/ Dso \/ Dpo

SpecCycle == CycleInit /\ [][CycleNext]_vars

\* max(minAbsDenominator, endBalance * minRelDenominator), times 100
RequiredByContract(end_balance, min_abs, min_rel) ==
    IF min_abs * 100 >= end_balance * min_rel THEN min_abs * 100 ELSE end_balance * min_rel

Digits == {"0", "1", "2", "3", "4", "5", "6", "7", "8", "9"}
LowerLetters ==
    {"a", "b", "c", "d", "e", "f", "g", "h", "i", "j", "k", "l", "m", "n", "o", "p", "q",
     "r", "s", "t", "u", "v", "w", "x", "y", "z", "á", "é", "í", "ó", "ú", "ü", "ñ"}
UpperLetters ==
    {"A", "B", "C", "D", "E", "F", "G", "H", "I", "J", "K", "L", "M", "N", "O", "P", "Q",
     "R", "S", "T", "U", "V", "W", "X", "Y", "Z"}

\* str.lower() on one character
LowerChar(c) ==
    CASE c = "A" -> "a" [] c = "B" -> "b" [] c = "C" -> "c" [] c = "D" -> "d" [] c = "E" -> "e" [] c = "F" -> "f" [] c = "G" -> "g" [] c = "H" -> "h" [] c = "I" -> "i"
      [] c = "J" -> "j" [] c = "K" -> "k" [] c = "L" -> "l" [] c = "M" -> "m" [] c = "N" -> "n" [] c = "O" -> "o" [] c = "P" -> "p" [] c = "Q" -> "q" [] c = "R" -> "r"
      [] c = "S" -> "s" [] c = "T" -> "t" [] c = "U" -> "u" [] c = "V" -> "v" [] c = "W" -> "w" [] c = "X" -> "x" [] c = "Y" -> "y" [] c = "Z" -> "z"
      [] OTHER -> c

lower(s) == [i \in 1..Len(s) |-> LowerChar(s[i])]

NBSP == " "
\* what str.strip() and str.split() take for whitespace
IsSpace(c) == c \in {" ", "\t", "\n", NBSP}

RECURSIVE lstrip(_)
lstrip(s) == IF s # <<>> /\ IsSpace(Head(s)) THEN lstrip(Tail(s)) ELSE s

RECURSIVE rstrip(_)
rstrip(s) ==
    IF s # <<>> /\ IsSpace(s[Len(s)]) THEN rstrip(SubSeq(s, 1, Len(s) - 1)) ELSE s

strip(s) == rstrip(lstrip(s))

\* " ".join(s.split()): runs of whitespace become one space
RECURSIVE collapse(_)
collapse(s) ==
    IF s = <<>> THEN <<>>
    ELSE IF IsSpace(Head(s)) /\ Len(s) >= 2 /\ IsSpace(s[2]) THEN collapse(Tail(s))
    ELSE <<Head(s)>> \o collapse(Tail(s))

\* s.replace(NBSP, " ")
replace_nbsp(s) == [i \in 1..Len(s) |-> IF s[i] = NBSP THEN " " ELSE s[i]]

_norm_text(s) == collapse(lower(strip(replace_nbsp(s))))

\* k occurs in s at position i
StartsAt(s, i, k) ==
    i >= 1 /\ i + Len(k) - 1 <= Len(s) /\ \A j \in 1..Len(k) : s[i + j - 1] = k[j]

\* k in s
Contains(s, k) == \E i \in 1..(Len(s) - Len(k) + 1) : StartsAt(s, i, k)

\* any(k in s for k in ks)
AnyIn(s, ks) == \E k \in ks : Contains(s, k)

IsWordChar(c) == c \in Digits \cup LowerLetters \cup UpperLetters \cup {"_"}

\* the regex \b between positions i-1 and i
WordBoundary(s, i) ==
    (i >= 2 /\ i - 1 <= Len(s) /\ IsWordChar(s[i - 1])) # (i >= 1 /\ i <= Len(s) /\ IsWordChar(s[i]))

\* \bk\b matches at i
WordAt(s, i, k) == StartsAt(s, i, k) /\ WordBoundary(s, i) /\ WordBoundary(s, i + Len(k))

AllDigits(s, i, n) == i >= 1 /\ i + n - 1 <= Len(s) /\ \A j \in i..(i + n - 1) : s[j] \in Digits

\* the lengths (d, m, y) the greedy quantifiers of _RX_DATE_DMY try, in order
DmyShapes ==
    << <<2, 2, 4>>, <<2, 2, 3>>, <<2, 2, 2>>, <<2, 1, 4>>, <<2, 1, 3>>, <<2, 1, 2>>,
       <<1, 2, 4>>, <<1, 2, 3>>, <<1, 2, 2>>, <<1, 1, 4>>, <<1, 1, 3>>, <<1, 1, 2>> >>

\* the lengths (y, m, d) the greedy quantifiers of _RX_DATE_ISO try, in order
IsoShapes == << <<4, 2, 2>>, <<4, 2, 1>>, <<4, 1, 2>>, <<4, 1, 1>> >>

\* \b digits sep digits sep digits \b with the given lengths matches at i
ShapeAt(s, i, sep, sh) ==
    /\ WordBoundary(s, i)
    /\ AllDigits(s, i, sh[1])
    /\ StartsAt(s, i + sh[1], <<sep>>)
    /\ AllDigits(s, i + sh[1] + 1, sh[2])
    /\ StartsAt(s, i + sh[1] + 1 + sh[2], <<sep>>)
    /\ AllDigits(s, i + sh[1] + sh[2] + 2, sh[3])
    /\ WordBoundary(s, i + sh[1] + sh[2] + sh[3] + 2)

\* position after the match of the date regex at i, 0 when it does not match at i
DateEnd(s, i, sep, shapes) ==
    IF s[i] \in Digits /\ \E n \in 1..Len(shapes) : ShapeAt(s, i, sep, shapes[n])
    THEN LET n == CHOOSE n \in 1..Len(shapes) :
                    /\ ShapeAt(s, i, sep, shapes[n])
                    /\ \A m \in 1..(n - 1) : ~ShapeAt(s, i, sep, shapes[m])
             sh == shapes[n]
         IN  i + sh[1] + sh[2] + sh[3] + 2
    ELSE 0

\* len(rx.findall(s)): leftmost non-overlapping matches from position i on
RECURSIVE FindAllFrom(_, _, _, _)
FindAllFrom(s, i, sep, shapes) ==
    IF i > Len(s) THEN 0
    ELSE LET e == DateEnd(s, i, sep, shapes)
         IN  IF e > 0 THEN 1 + FindAllFrom(s, e, sep, shapes)
             ELSE FindAllFrom(s, i + 1, sep, shapes)

CountDmy(s) == FindAllFrom(s, 1, "/", DmyShapes)
CountIso(s) == FindAllFrom(s, 1, "-", IsoShapes)

_has_two_dates(s) == CountDmy(s) + CountIso(s) >= 2
_has_any_date(s) == CountDmy(s) > 0 \/ CountIso(s) > 0

\* re.search(r"\bvenc(?:e|en)\b", s)
HasVence(s) ==
    \E i \in 1..Len(s) : WordAt(s, i, <<"v", "e", "n", "c", "e">>) \/ WordAt(s, i, <<"v", "e", "n", "c", "e", "n">>)

\* _RX_DUE_ON.search(s): \bvenc(?:e|en)\b.*\b(hoy|el|en)\b
_RX_DUE_ON(s) ==
    \E i \in 1..Len(s) :
        \/ /\ WordAt(s, i, <<"v", "e", "n", "c", "e">>)
           /\ \E j \in (i + 5)..Len(s) :
                WordAt(s, j, <<"h", "o", "y">>) \/ WordAt(s, j, <<"e", "l">>) \/ WordAt(s, j, <<"e", "n">>)
        \/ /\ WordAt(s, i, <<"v", "e", "n", "c", "e", "n">>)
           /\ \E j \in (i + 6)..Len(s) :
                WordAt(s, j, <<"h", "o", "y">>) \/ WordAt(s, j, <<"e", "l">>) \/ WordAt(s, j, <<"e", "n">>)

\* keyword lists of route_intent
KwCxc ==
    { <<"c", "x", "c">>, <<"c", "o", "b", "r", "a", "r">>,
      <<"c", "l", "i", "e", "n", "t", "e">>, <<"c", "l", "i", "e", "n", "t", "e", "s">>,
      <<"f", "a", "c", "t", "u", "r", "a">>, <<"f", "a", "c", "t", "u", "r", "a", "s">>,
      <<"d", "s", "o">>, <<"p", "o", "r", " ", "c", "o", "b", "r", "a", "r">>,
      <<"c", "u", "e", "n", "t", "a", "s", " ", "p", "o", "r", " ", "c", "o", "b", "r", "a", "r">> }
KwCxp ==
    { <<"c", "x", "p">>, <<"p", "r", "o", "v", "e", "e", "d", "o", "r">>,
      <<"p", "r", "o", "v", "e", "e", "d", "o", "r", "e", "s">>, <<"p", "a", "g", "o">>,
      <<"p", "a", "g", "o", "s">>, <<"d", "p", "o">>,
      <<"p", "o", "r", " ", "p", "a", "g", "a", "r">>,
      <<"c", "u", "e", "n", "t", "a", "s", " ", "p", "o", "r", " ", "p", "a", "g", "a", "r">> }
KwInforme ==
    { <<"i", "n", "f", "o", "r", "m", "e", " ", "e", "j", "e", "c", "u", "t", "i", "v", "o">>,
      <<"b", "s", "c">>,
      <<"b", "a", "l", "a", "n", "c", "e", "d", " ", "s", "c", "o", "r", "e", "c", "a", "r", "d">>,
      <<"r", "e", "s", "u", "m", "e", "n", " ", "g", "e", "r", "e", "n", "c", "i", "a", "l">>,
      <<"i", "n", "f", "o", "r", "m", "e">> }
KwAging ==
    { <<"a", "g", "i", "n", "g">>, <<"b", "u", "c", "k", "e", "t", "s">>,
      <<"a", "n", "t", "i", "g", "u", "e", "d", "a", "d">>,
      <<"a", "n", "t", "i", "g", "ü", "e", "d", "a", "d">>,
      <<"n", "o", " ", "v", "e", "n", "c", "i", "d", "o">>, <<"1", "-", "3", "0">>,
      <<"3", "1", "-", "6", "0">>, <<"6", "1", "-", "9", "0">>, <<"9", "0", "+">>,
      <<"v", "e", "n", "c", "i", "d", "o">>, <<"v", "e", "n", "c", "i", "d", "a", "s">>,
      <<"p", "o", "r", " ", "v", "e", "n", "c", "e", "r">> }
KwVencimientos ==
    { <<"v", "e", "n", "c", "e">>, <<"v", "e", "n", "c", "e", "n">>,
      <<"v", "e", "n", "c", "i", "d", "a">>, <<"v", "e", "n", "c", "i", "d", "a", "s">>,
      <<"v", "e", "n", "c", "i", "m", "i", "e", "n", "t", "o">>,
      <<"v", "e", "n", "c", "i", "m", "i", "e", "n", "t", "o", "s">>,
      <<"f", "e", "c", "h", "a", " ", "l", "i", "m", "i", "t", "e">>,
      <<"f", "e", "c", "h", "a", " ", "l", "í", "m", "i", "t", "e">>,
      <<"e", "n", "t", "r", "e">>, <<"d", "e", "s", "d", "e">>, <<"h", "a", "s", "t", "a">>,
      <<"d", "e", "l">>, <<"a", "l">> }
KwTop ==
    { <<"t", "o", "p">>, <<"r", "a", "n", "k", "i", "n", "g">>,
      <<"m", "a", "y", "o", "r", "e", "s">>, <<"m", "a", "y", "o", "r">>,
      <<"p", "r", "i", "n", "c", "i", "p", "a", "l", "e", "s">> }
KwSaldo ==
    { <<"s", "a", "l", "d", "o">>, <<"s", "a", "l", "d", "o", "s">>,
      <<"m", "o", "n", "t", "o">>, <<"m", "o", "n", "t", "o", "s">> }
KwAbierto ==
    { <<"a", "b", "i", "e", "r", "t", "o">>, <<"a", "b", "i", "e", "r", "t", "a">>,
      <<"p", "e", "n", "d", "i", "e", "n", "t", "e">>,
      <<"p", "e", "n", "d", "i", "e", "n", "t", "e", "s">>,
      <<"p", "o", "r", " ", "c", "o", "b", "r", "a", "r">>,
      <<"p", "o", "r", " ", "p", "a", "g", "a", "r">> }
KwPagoParcial ==
    { <<"p", "a", "g", "o", " ", "p", "a", "r", "c", "i", "a", "l">>,
      <<"p", "a", "g", "o", "s", " ", "p", "a", "r", "c", "i", "a", "l", "e", "s">>,
      <<"a", "b", "o", "n", "o">>, <<"a", "b", "o", "n", "o", "s">>,
      <<"p", "a", "r", "c", "i", "a", "l", "m", "e", "n", "t", "e", " ", "p", "a", "g", "a", "d", "a">>,
      <<"p", "a", "r", "c", "i", "a", "l", "m", "e", "n", "t", "e", " ", "p", "a", "g", "a", "d", "a", "s">>,
      <<"p", "a", "g", "a", "d", "a", " ", "p", "a", "r", "c", "i", "a", "l", "m", "e", "n", "t", "e">>,
      <<"p", "a", "g", "a", "d", "a", "s", " ", "p", "a", "r", "c", "i", "a", "l", "m", "e", "n", "t", "e">>,
      <<"p", "a", "g", "o", " ", "i", "n", "c", "o", "m", "p", "l", "e", "t", "o">>,
      <<"p", "a", "g", "o", "s", " ", "i", "n", "c", "o", "m", "p", "l", "e", "t", "o", "s">>,
      <<"s", "a", "l", "d", "o", " ", "p", "e", "n", "d", "i", "e", "n", "t", "e", " ", "c", "o", "n", " ", "a", "b", "o", "n", "o">>,
      <<"a", "b", "o", "n", "a", "d", "a">>, <<"a", "b", "o", "n", "a", "d", "a", "s">> }
KwFacturasCxc ==
    { <<"f", "a", "c", "t", "u", "r", "a">>, <<"f", "a", "c", "t", "u", "r", "a", "s">>,
      <<"c", "x", "c">>,
      <<"c", "u", "e", "n", "t", "a", "s", " ", "p", "o", "r", " ", "c", "o", "b", "r", "a", "r">>,
      <<"p", "o", "r", " ", "c", "o", "b", "r", "a", "r">> }
KwAbiertas ==
    { <<"a", "b", "i", "e", "r", "t", "a", "s">>, <<"a", "b", "i", "e", "r", "t", "o", "s">>,
      <<"p", "e", "n", "d", "i", "e", "n", "t", "e", "s">>,
      <<"s", "i", "n", " ", "p", "a", "g", "a", "r">>,
      <<"n", "o", " ", "p", "a", "g", "a", "d", "a", "s">> }
KwConteo ==
    { <<"c", "u", "á", "n", "t", "a", "s">>, <<"c", "u", "a", "n", "t", "a", "s">>,
      <<"c", "a", "n", "t", "i", "d", "a", "d">>, <<"n", "u", "m", "e", "r", "o">>,
      <<"n", "ú", "m", "e", "r", "o">>, <<"c", "o", "u", "n", "t">>,
      <<"t", "o", "t", "a", "l">> }
KwResumen ==
    { <<"s", "a", "l", "d", "o", " ", "t", "o", "t", "a", "l">>, <<"t", "o", "t", "a", "l">>,
      <<"m", "o", "n", "t", "o", " ", "t", "o", "t", "a", "l">>,
      <<"r", "e", "s", "u", "m", "e", "n">> }
KwClientes ==
    { <<"c", "l", "i", "e", "n", "t", "e">>, <<"c", "l", "i", "e", "n", "t", "e", "s">> }
KwProveedores ==
    { <<"p", "r", "o", "v", "e", "e", "d", "o", "r">>,
      <<"p", "r", "o", "v", "e", "e", "d", "o", "r", "e", "s">> }

KCxc == <<"c", "x", "c">>
KCxp == <<"c", "x", "p">>
KCuentasPorCobrar == <<"c", "u", "e", "n", "t", "a", "s", " ", "p", "o", "r", " ", "c", "o", "b", "r", "a", "r">>
KCuentasPorPagar == <<"c", "u", "e", "n", "t", "a", "s", " ", "p", "o", "r", " ", "p", "a", "g", "a", "r">>
KPorCobrar == <<"p", "o", "r", " ", "c", "o", "b", "r", "a", "r">>
KPorPagar == <<"p", "o", "r", " ", "p", "a", "g", "a", "r">>
KFactura == <<"f", "a", "c", "t", "u", "r", "a">>
KFacturas == <<"f", "a", "c", "t", "u", "r", "a", "s">>
KCuantasFacturas == <<"c", "u", "a", "n", "t", "a", "s", " ", "f", "a", "c", "t", "u", "r", "a", "s">>
KCuantasFacturasAcento == <<"c", "u", "á", "n", "t", "a", "s", " ", "f", "a", "c", "t", "u", "r", "a", "s">>
KCon == <<" ", "c", "o", "n", " ">>
KHoy == <<"h", "o", "y">>

(***************************************************************************)
(* Intent classifier: route_intent                                         *)
(***************************************************************************)
CxcSpecificFlags ==
    {"vencimientos_rango", "top_clientes_cxc", "vencen_hoy_cxc", "cxc_pago_parcial",
     "saldo_cliente_cxc"}
CxpSpecificFlags ==
    {"cxp_abiertas_resumen", "aging_cxp", "top_proveedores_cxp", "saldo_proveedor_cxp"}
IntentFlags == {"cxc", "cxp", "informe", "aging"} \cup CxcSpecificFlags \cup CxpSpecificFlags

\* Intent(): every flag False
NoIntent == [f \in IntentFlags |-> FALSE]

AnyFlag(it, flags) == \E f \in flags : it[f]

Clear(it, flags) == [f \in IntentFlags |-> IF f \in flags THEN FALSE ELSE it[f]]

\* the module forces applied by both stages
ForceSpecific(it) ==
    LET a == IF AnyFlag(it, {"top_clientes_cxc", "vencen_hoy_cxc", "cxc_pago_parcial",
                             "saldo_cliente_cxc"})
             THEN [it EXCEPT !.cxc = TRUE] ELSE it
    IN  IF AnyFlag(a, CxpSpecificFlags) THEN [a EXCEPT !.cxp = TRUE] ELSE a

\* a guard with a tie-break: when both directions are specific it keeps the
\* receivable side's specific flags only
GuardPreferCxc(it) ==
    LET cxc_specific == AnyFlag(it, CxcSpecificFlags)
        cxp_specific == AnyFlag(it, CxpSpecificFlags)
    IN  IF cxc_specific /\ cxp_specific THEN Clear(it, CxpSpecificFlags)
        ELSE IF cxp_specific THEN Clear(it, {"cxc"} \cup CxcSpecificFlags)
        ELSE IF cxc_specific THEN Clear(it, {"cxp"} \cup CxpSpecificFlags)
        ELSE it

\* the anti-crossing guard; cxc_specific and cxp_specific are computed once, before it
Guard(it) ==
    LET cxc_specific == AnyFlag(it, CxcSpecificFlags)
        cxp_specific == AnyFlag(it, CxpSpecificFlags)
        a == IF cxp_specific /\ ~cxc_specific
             THEN Clear(it, {"cxc"} \cup CxcSpecificFlags) ELSE it
    IN  IF cxc_specific /\ ~cxp_specific
        THEN Clear(a, {"cxp"} \cup CxpSpecificFlags) ELSE a

\* the flags of the keyword stage, before the forces and the guard
Heuristic(text) ==
    LET q_low == strip(lower(text))
        q_norm == _norm_text(text)
        one_date_low == _has_any_date(q_low) /\ ~_has_two_dates(q_low)
        one_date_norm == _has_any_date(q_norm) /\ ~_has_two_dates(q_norm)
        has_vence == HasVence(q_norm)
        cxc == AnyIn(q_low, KwCxc)
        cxp == AnyIn(q_low, KwCxp)
        informe == AnyIn(q_low, KwInforme)
        hoy1 == Contains(q_norm, KHoy) /\ has_vence
        hoy2 == hoy1 \/ (has_vence /\ one_date_norm)
        vencen_hoy_cxc == hoy2 \/ (_RX_DUE_ON(q_norm) /\ one_date_norm)
        aging0 == AnyIn(q_low, KwAging)
        vencimientos_kw == AnyIn(q_low, KwVencimientos)
        rango0 == vencimientos_kw /\ _has_two_dates(q_low)
        top_kw == AnyIn(q_low, KwTop)
        saldo_kw == AnyIn(q_low, KwSaldo)
        abierto_kw == AnyIn(q_low, KwAbierto)
        clientes_kw == AnyIn(q_low, KwClientes)
        proveedores_kw == AnyIn(q_low, KwProveedores)
        por_cobrar == Contains(q_low, KPorCobrar)
        por_pagar == Contains(q_low, KPorPagar)
        cuentas_por_cobrar == Contains(q_low, KCuentasPorCobrar)
        cuentas_por_pagar == Contains(q_low, KCuentasPorPagar)
        has_cxc == Contains(q_low, KCxc)
        has_cxp == Contains(q_low, KCxp)
        top_clientes_cxc ==
            /\ top_kw /\ clientes_kw /\ saldo_kw
            /\ (abierto_kw \/ has_cxc \/ cuentas_por_cobrar)
            /\ ~(has_cxp \/ proveedores_kw)
            /\ one_date_low
        cxc_pago_parcial == AnyIn(q_norm, KwPagoParcial) /\ AnyIn(q_norm, KwFacturasCxc)
        vencimientos_rango == rango0 /\ ~cxc_pago_parcial
        aging == aging0 /\ ~cxc_pago_parcial
        saldo_cliente0 ==
            /\ saldo_kw /\ one_date_low /\ ~top_clientes_cxc
            /\ (clientes_kw \/ has_cxc \/ cuentas_por_cobrar
                \/ por_cobrar)
            /\ ~(proveedores_kw \/ has_cxp
                 \/ cuentas_por_pagar \/ por_pagar)
        abiertas_kw == AnyIn(q_low, KwAbiertas)
        conteo_kw == AnyIn(q_low, KwConteo)
        facturas_kw == Contains(q_low, KFactura) \/ Contains(q_low, KFacturas)
        resumen_kw == AnyIn(q_low, KwResumen)
        resumen0 ==
            /\ (cxp \/ cuentas_por_pagar \/ por_pagar
                \/ has_cxp)
            /\ (facturas_kw \/ cuentas_por_pagar \/ has_cxp)
            /\ (abiertas_kw \/ abierto_kw \/ conteo_kw)
            /\ (conteo_kw \/ Contains(q_low, KCuantasFacturasAcento)
                \/ Contains(q_low, KCuantasFacturas))
            /\ (resumen_kw \/ saldo_kw)
            /\ one_date_low
            /\ ~(clientes_kw \/ has_cxc)
            /\ ~top_kw
        aging_cxp == cxp /\ aging /\ one_date_low
        top_proveedores_cxp ==
            /\ top_kw /\ proveedores_kw /\ saldo_kw
            /\ (abierto_kw \/ has_cxp \/ cuentas_por_pagar
                \/ por_pagar)
            /\ one_date_low
            /\ ~(clientes_kw \/ has_cxc)
        saldo_cliente_cxc == saldo_cliente0 /\ ~top_proveedores_cxp
        cxp_abiertas_resumen == resumen0 /\ ~top_proveedores_cxp
        saldo_proveedor_cxp ==
            /\ cxp /\ saldo_kw
            /\ (abierto_kw \/ has_cxp \/ cuentas_por_pagar
                \/ por_pagar)
            /\ one_date_low
            /\ Contains(q_low, KCon)
            /\ ~top_proveedores_cxp
            /\ ~cxp_abiertas_resumen
    IN  [cxc |-> cxc, cxp |-> cxp, informe |-> informe, aging |-> aging,
         vencimientos_rango |-> vencimientos_rango, top_clientes_cxc |-> top_clientes_cxc,
         vencen_hoy_cxc |-> vencen_hoy_cxc, cxc_pago_parcial |-> cxc_pago_parcial,
         saldo_cliente_cxc |-> saldo_cliente_cxc,
         cxp_abiertas_resumen |-> cxp_abiertas_resumen, aging_cxp |-> aging_cxp,
         top_proveedores_cxp |-> top_proveedores_cxp,
         saldo_proveedor_cxp |-> saldo_proveedor_cxp]

\* the forces of the keyword stage: the first two look at cxc and cxp
HeuristicForces(it) ==
    LET a == IF it.vencen_hoy_cxc /\ ~it.cxc /\ ~it.cxp THEN [it EXCEPT !.cxc = TRUE] ELSE it
        b == IF a.vencimientos_rango /\ ~(a.cxc \/ a.cxp) THEN [a EXCEPT !.cxc = TRUE] ELSE a
    IN  ForceSpecific(b)

\* stage 1 of route_intent on the keyword flags h, up to the test that decides
\* whether the LLM is asked
Deterministic(h) == Guard(HeuristicForces(h))

\* stage 2 of route_intent on the flags coerced from the LLM's JSON object
FromLlm(obj) ==
    LET a == IF ~AnyFlag(obj, IntentFlags) THEN [obj EXCEPT !.cxc = TRUE, !.cxp = TRUE] ELSE obj
    IN  Guard(ForceSpecific(a))

\* reasons route_intent writes
ReasonHeuristic == "Heurística por palabras clave"
ReasonAmbiguous == "Fallback ambiguo: ambos"
ReasonLlmError == "Fallback por error LLM: "

\* the text the backend answers with, by what json.loads makes of it:
\* whole is the value of the whole text ("invalid" when it does not parse),
\* braces the value of the text from its first "{" to its last "}"
\* ("none" without such a stretch, "invalid" when it does not parse)
Content(whole, braces) == [whole |-> whole, braces |-> braces]

\* _extract_json: the whole text when it parses, whatever its type, else
\* the stretch between the braces when it parses, else {}
_extract_json(content, obj) ==
    IF content.whole = "object" THEN [t |-> "dict", obj |-> obj]
    ELSE IF content.whole /= "invalid" THEN [t |-> content.whole, obj |-> << >>]
    ELSE IF content.braces = "object" THEN [t |-> "dict", obj |-> obj]
    ELSE [t |-> "dict", obj |-> << >>]

LlmErrorIntentNone == NoIntent
\* the except branch of stage 2
LlmErrorIntent == [NoIntent EXCEPT !.cxc = TRUE, !.cxp = TRUE]

(***************************************************************************)
(* Intent classifier: the state machine of route_intent                    *)
(***************************************************************************)
MaxWords == 4
MaxLlmKeys == 2

\* the words questions are made of, in the order they may follow one another
Vocabulary ==
    << <<"t", "o", "p">>,
       <<"S", "a", "l", "d", "o">>,
       <<"t", "o", "t", "a", "l">>,
       <<"a", "g", "i", "n", "g">>,
       <<"f", "a", "c", "t", "u", "r", "a", "s">>,
       <<"a", "b", "o", "n", "o">>,
       <<"c", "x", "p">>,
       <<"c", "l", "i", "e", "n", "t", "e", "s">>,
       <<"p", "r", "o", "v", "e", "e", "d", "o", "r", "e", "s">>,
       <<"c", "o", "n">>,
       <<"h", "o", "l", "a">>,
       <<"i", "n", "f", "o", "r", "m", "e">>,
       <<"v", "e", "n", "c", "e">>,
       <<"h", "o", "y">>,
       <<"2", "9", "/", "1", "0", "/", "2", "0", "2", "5">>,
       <<"2", "0", "2", "5", "-", "1", "1", "-", "0", "5">> >>

\* JSON values the LLM may give a key: a string, a number
JsonValues == {"si", "0"}

\* _coerce_bool on those values
_coerce_bool(v) == IF v = "0" THEN FALSE ELSE v \in {"true", "sí", "si", "yes", "y", "1"}

\* the objects _extract_json may hand back: at most MaxLlmKeys keys present
LlmObjects ==
    UNION { [ks -> JsonValues] : ks \in {k \in SUBSET IntentFlags : Cardinality(k) <= MaxLlmKeys} }

\* obj.get(flag) coerced, for every flag
Coerced(obj) == [f \in IntentFlags |-> f \in DOMAIN obj /\ _coerce_bool(obj[f])]

\* the texts of an answer that carries an object, and of one that does not
ObjectContents == {Content("object", "object"), Content("invalid", "object")}
EmptyContents == {Content("invalid", "none"), Content("invalid", "invalid")}
NonObjectContents == {Content("list", "none"), Content("null", "none"), Content("str", "none"), Content("list", "object")}

\* the try block of stage 2 on the backend's text; obj is the object the
\* text holds, llm_reason its "reason"
Stage2(content, obj, llm_reason) ==
    LET parsed == _extract_json(content, obj)
        c == Coerced(parsed.obj)
    IN  IF parsed.t /= "dict"
        THEN [src |-> "llm_error", flags |-> LlmErrorIntent, reason |-> ReasonLlmError \o "AttributeError", content |-> content]
        ELSE [src |-> "llm", flags |-> FromLlm(c),
              reason |-> IF AnyFlag(c, IntentFlags) THEN llm_reason ELSE ReasonAmbiguous,
              content |-> content]

IntentInit ==
    /\ question = << >>
    /\ lastWord = 0
    /\ nWords = 0
    /\ ipc = "typing"
    /\ intent = [src |-> "none"]
    /\ LedgerIdle
    /\ SynthIdle
    /\ RouterIdle
    /\ PeriodIdle
    /\ KbIdle

\* the caller's question grows by one word
TypeWord ==
    /\ ipc = "typing"
    /\ nWords < MaxWords
    /\ \E w \in (lastWord + 1)..Len(Vocabulary) :
         /\ question' = (IF question = << >> THEN << >> ELSE question \o <<" ">>)
                        \o Vocabulary[w]
         /\ lastWord' = w
    /\ nWords' = nWords + 1
    /\ UNCHANGED <<ipc, intent, NotIntent>>

\* route_intent, stage 1: returns when any flag is set, else asks the LLM
Classify ==
    /\ ipc = "typing"
    /\ \E h \in {Heuristic(question)} : \E it \in {Deterministic(h)} :
           IF AnyFlag(it, IntentFlags)
           THEN /\ intent' = [src |-> "heuristic", flags |-> it, reason |-> ReasonHeuristic, content |-> Content("none", "none")]
                /\ ipc' = "done"
           ELSE /\ intent' = intent
                /\ ipc' = "llm"
    /\ UNCHANGED <<question, lastWord, nWords, NotIntent>>

\* route_intent, stage 2: the LLM answers with a JSON object
LlmAnswers ==
    /\ ipc = "llm"
    /\ \E obj \in LlmObjects, content \in ObjectContents, llm_reason \in {"", "ok"} :
         intent' = Stage2(content, obj, llm_reason)
    /\ ipc' = "done"
    /\ UNCHANGED <<question, lastWord, nWords, NotIntent>>

\* route_intent, stage 2: no JSON in the answer, _extract_json gives {}
LlmNoJson ==
    /\ ipc = "llm"
    /\ \E content \in EmptyContents : intent' = Stage2(content, << >>, "")
    /\ ipc' = "done"
    /\ UNCHANGED <<question, lastWord, nWords, NotIntent>>

\* route_intent, stage 2: the JSON of the answer is not an object
LlmNotObject ==
    /\ ipc = "llm"
    /\ \E content \in NonObjectContents, obj \in {<< >>, [cxc |-> "si"]} : intent' = Stage2(content, obj, "")
    /\ ipc' = "done"
    /\ UNCHANGED <<question, lastWord, nWords, NotIntent>>

\* route_intent, stage 2: the call raises
LlmFails ==
    /\ ipc = "llm"
    /\ intent' = [src |-> "llm_error", flags |-> LlmErrorIntent, reason |-> ReasonLlmError \o "timeout", content |-> Content("raised", "none")]
    /\ ipc' = "done"
    /\ UNCHANGED <<question, lastWord, nWords, NotIntent>>

\* route_intent, before stage 2: get_chat_model raises (no API key), and
\* so does route_intent
LlmUnconfigured ==
    /\ ipc = "llm"
    /\ intent' = [src |-> "raised", flags |-> NoIntent, reason |-> "", content |-> Content("none", "none")]
    /\ ipc' = "raised"
    /\ UNCHANGED <<question, lastWord, nWords, NotIntent>>

IntentNext == TypeWord \/ Classify \/ LlmAnswers \/ LlmNoJson \/ LlmNotObject \/ LlmFails \/ LlmUnconfigured

SpecIntent == IntentInit /\ [][IntentNext]_vars

\* C4: in every Intent route_intent returns, from either stage, a true
\* payable-specific flag means cxc and every receivable-specific flag are
\* false, and a true receivable-specific flag means cxp and every
\* payable-specific flag are false.
C4_DirectionsExclusive ==
    ipc = "done" =>
        /\ AnyFlag(intent.flags, CxpSpecificFlags) =>
             ~intent.flags.cxc /\ ~AnyFlag(intent.flags, CxcSpecificFlags)
        /\ AnyFlag(intent.flags, CxcSpecificFlags) =>
             ~intent.flags.cxp /\ ~AnyFlag(intent.flags, CxpSpecificFlags)

\* C11: in every Intent route_intent returns, from either stage, a true
\* receivable action flag means cxc is true and a true payable action flag
\* means cxp is true.
C11_ActionFlagForcesDirection ==
    ipc = "done" =>
        /\ AnyFlag(intent.flags, CxcSpecificFlags) => intent.flags.cxc
        /\ AnyFlag(intent.flags, CxpSpecificFlags) => intent.flags.cxp

\* the backend gave nothing to read: no text that parses, a text that is
\* not an object, or the call failed
NothingToRead ==
    \/ intent.content.whole \in {"list", "null", "str", "raised"}
    \/ (intent.content.whole = "invalid" /\ intent.content.braces /= "object")

\* C12: route_intent asks the backend only when the deterministic stage set
\* none of the 13 flags, and when the backend's answer is empty, does not
\* parse, or the call fails, route_intent still returns an Intent with cxc
\* and cxp true, every action flag false and a reason that is not empty.
C12_FallbackOnlyWhenNoFlagAndAlwaysAnIntent ==
    /\ ipc = "llm" => ~AnyFlag(Deterministic(Heuristic(question)), IntentFlags)
    /\ (ipc = "done" /\ intent.src /= "heuristic" /\ NothingToRead) =>
           /\ intent.flags.cxc
           /\ intent.flags.cxp
           /\ ~AnyFlag(intent.flags, CxcSpecificFlags \cup CxpSpecificFlags)
           /\ intent.reason /= ""

\* the backend was asked about a question and answered with a list that
\* holds an object
C12_Witness ==
    /\ ipc = "done"
    /\ question /= << >>
    /\ intent.src = "llm_error"
    /\ intent.content = Content("list", "object")
    /\ intent.flags = LlmErrorIntent

(***************************************************************************)
(* The report synthesizer: agents/av_gerente/logic.py, tools/formatters.py *)
(*                                                                         *)
(* An Optional[float] is a record: None, or a number.  Days are counted in *)
(* tenths of a day and money in cents, so that the formatters have digits  *)
(* to lay out.  A JSON value is a record [k, t, s, l]: its tag t, its text *)
(* s when it is a string, its members l when it is a list or an object;    *)
(* k is the key under which a member sits in an object.                    *)
(***************************************************************************)
Null == [null |-> TRUE, v |-> 0]
Num(n) == [null |-> FALSE, v |-> n]

DigitChar(d) == CASE d = 0 -> "0" [] d = 1 -> "1" [] d = 2 -> "2" [] d = 3 -> "3" [] d = 4 -> "4" [] d = 5 -> "5" [] d = 6 -> "6" [] d = 7 -> "7" [] d = 8 -> "8" [] OTHER -> "9"

RECURSIVE NatStr(_)
NatStr(n) == IF n < 10 THEN DigitChar(n) ELSE NatStr(n \div 10) \o DigitChar(n % 10)

\* the "," option of the format specification: groups of three digits
RECURSIVE Grouped(_)
Grouped(n) ==
    IF n < 1000 THEN NatStr(n)
    ELSE Grouped(n \div 1000) \o "," \o DigitChar((n \div 100) % 10)
                              \o DigitChar((n \div 10) % 10) \o DigitChar(n % 10)

Sign(n) == IF n < 0 THEN "-" ELSE ""
Abs(n) == IF n < 0 THEN -n ELSE n

\* format_currency: None gives "N/D", else symbol, thousands groups, 2 decimals
format_currency(value) ==
    IF value.null THEN "N/D"
    ELSE "₡" \o Sign(value.v) \o Grouped(Abs(value.v) \div 100) \o "."
             \o DigitChar((Abs(value.v) \div 10) % 10) \o DigitChar(Abs(value.v) % 10)

\* format_days: None gives "N/D", else one decimal and the unit
format_days(value) ==
    IF value.null THEN "N/D"
    ELSE Sign(value.v) \o NatStr(Abs(value.v) \div 10) \o "."
             \o DigitChar(Abs(value.v) % 10) \o " días"

JAbsent == [k |-> "", t |-> "absent", s |-> "", l |-> << >>]
JNull == [k |-> "", t |-> "null", s |-> "", l |-> << >>]
JStr(s) == [k |-> "", t |-> "str", s |-> s, l |-> << >>]
JList(l) == [k |-> "", t |-> "list", s |-> "", l |-> l]
JDict(l) == [k |-> "", t |-> "dict", s |-> "", l |-> l]
Entry(key, v) == [v EXCEPT !.k = key]

\* dict.get(key): the member under the key, JAbsent when there is none
Get(d, key) ==
    IF \E i \in 1..Len(d.l) : d.l[i].k = key
    THEN [d.l[CHOOSE i \in 1..Len(d.l) : d.l[i].k = key] EXCEPT !.k = ""]
    ELSE JAbsent

\* d[key] = v
Put(d, key, v) ==
    IF \E i \in 1..Len(d.l) : d.l[i].k = key
    THEN [d EXCEPT !.l = [i \in 1..Len(d.l) |-> IF d.l[i].k = key THEN Entry(key, v) ELSE d.l[i]]]
    ELSE [d EXCEPT !.l = Append(d.l, Entry(key, v))]

\* Python truth value of a JSON value
Truthy(j) ==
    CASE j.t = "str" -> j.s /= ""
      [] j.t \in {"list", "dict"} -> j.l /= << >>
      [] OTHER -> FALSE

\* a list or an object cannot be a dict key or a set member
Hashable(j) == j.t \notin {"list", "dict"}

Strs(lines) == [i \in 1..Len(lines) |-> JStr(lines[i])]

NoBalances == [empty |-> TRUE, ar |-> Null, ap |-> Null, nwc |-> Null]

\* the KPI of the first trace item that carries a value for it
FirstKpi(tr, key) ==
    LET I == {i \in 1..Len(tr) : ~tr[i].kpi[key].null}
    IN  IF I = {} THEN Null ELSE tr[CHOOSE i \in I : \A j \in I : i <= j].kpi[key]

\* _extract_context: per KPI the first value present, and the first
\* non-empty balances object
_extract_context(tr) ==
    LET B == {i \in 1..Len(tr) : ~tr[i].bal.empty}
    IN  [kpis |-> [DSO |-> FirstKpi(tr, "DSO"), DPO |-> FirstKpi(tr, "DPO"), CCC |-> FirstKpi(tr, "CCC")],
         balances |-> IF B = {} THEN NoBalances
                      ELSE tr[CHOOSE i \in B : \A j \in B : i <= j].bal]

\* the field of the first item of the agent that carries a value for it
FirstData(tr, agent, field) ==
    LET I == {i \in 1..Len(tr) : tr[i].agent = agent /\ ~tr[i][field].null}
    IN  IF I = {} THEN Null ELSE tr[CHOOSE i \in I : \A j \in I : i <= j][field]

\* _extract_operational_totals: total is total_por_cobrar of aaav_cxc and
\* total_por_pagar of aaav_cxp, open is open_invoices
_extract_operational_totals(tr, ctx) ==
    [ar_outstanding |-> FirstData(tr, "aaav_cxc", "total"),
     ar_open_invoices |-> FirstData(tr, "aaav_cxc", "open"),
     ap_outstanding |-> FirstData(tr, "aaav_cxp", "total"),
     ap_open_invoices |-> FirstData(tr, "aaav_cxp", "open"),
     nwc_proxy |-> ctx.balances.nwc]

Above(x, tenths) == ~x.null /\ x.v > tenths
Below(x, tenths) == ~x.null /\ x.v < tenths

\* causal_hypotheses of tools/causality: hypotheses from KPI thresholds
causal_hypotheses(ctx) ==
    IF Above(ctx.kpis.DSO, 450) THEN <<"DSO alto: friccion en cobranza">> ELSE << >>

Order(title, owner, priority, kpi) ==
    JDict(<<Entry("title", JStr(title)), Entry("owner", JStr(owner)),
            Entry("priority", JStr(priority)), Entry("kpi", JStr(kpi))>>)

\* _deterministic_orders: one order per KPI threshold crossed (the due
\* date, taken from the period, is left out of the order)
_deterministic_orders(ctx) ==
    LET ar == ctx.balances.ar
        ap == ctx.balances.ap
    IN  (IF Above(ctx.kpis.DSO, 450)
         THEN <<Order("Campaña dunning top-10 clientes", "CxC", "P1", "DSO")>> ELSE << >>)
        \o (IF Below(ctx.kpis.DPO, 400)
            THEN <<Order("Renegociar 3 proveedores clave", "CxP", "P2", "DPO")>> ELSE << >>)
        \o (IF Above(ctx.kpis.CCC, 200)
            THEN <<Order("Freeze gastos no esenciales (30d)", "Administración", "P1", "CCC")>> ELSE << >>)
        \o (IF ~ar.null /\ ~ap.null /\ ap.v > 0 /\ ar.v * 100 > 130 * ap.v
            THEN <<Order("Sync semanal CxC/CxP sobre flujos", "Administración", "P3", "CCC")>> ELSE << >>)

OrZero(x) == IF x.null THEN 0 ELSE x.v

\* the six lines of bsc.finanzas, written by _fallback_report and by
\* _post_process_report alike
KpiBoard(ctx, op_totals) ==
    <<"DSO: " \o format_days(ctx.kpis.DSO),
      "DPO: " \o format_days(ctx.kpis.DPO),
      "CCC: " \o format_days(ctx.kpis.CCC),
      "CxC abiertas: " \o format_currency(op_totals.ar_outstanding) \o " en "
          \o NatStr(OrZero(op_totals.ar_open_invoices)) \o " facturas",
      "CxP abiertas: " \o format_currency(op_totals.ap_outstanding) \o " en "
          \o NatStr(OrZero(op_totals.ap_open_invoices)) \o " facturas",
      IF ~op_totals.nwc_proxy.null
      THEN "NWC proxy: " \o format_currency(op_totals.nwc_proxy) ELSE "NWC proxy: N/D">>

\* list(dict.fromkeys(xs)): the first occurrence of each member, in order
RECURSIVE Dedup(_)
Dedup(xs) ==
    IF xs = << >> THEN << >>
    ELSE LET front == Dedup(SubSeq(xs, 1, Len(xs) - 1))
             x == xs[Len(xs)]
         IN  IF \E i \in 1..Len(front) : front[i] = x THEN front ELSE Append(front, x)

FirstTen(xs) == SubSeq(xs, 1, IF Len(xs) < 10 THEN Len(xs) ELSE 10)

\* report.get(key) on the top-level object, a function from its keys
TopGet(report, key) == IF key \in DOMAIN report THEN report[key] ELSE JAbsent

\* report[key] = v on the top-level object
TopPut(report, key, v) ==
    [x \in DOMAIN report \cup {key} |-> IF x = key THEN v ELSE report[x]]

\* _fallback_report: every section computed from the KPIs of the trace
_fallback_report(ctx, op_totals, causal_traditional) ==
    LET kdso == ctx.kpis.DSO
        kdpo == ctx.kpis.DPO
        kccc == ctx.kpis.CCC
        h1 == IF Above(kdso, 450) THEN <<"DSO por encima del umbral (>45 días): " \o format_days(kdso) \o ".">> ELSE << >>
        h2 == IF Below(kdpo, 400) THEN <<"DPO por debajo del umbral (<40 días): " \o format_days(kdpo) \o ".">> ELSE << >>
        h3 == IF Above(kccc, 200) THEN <<"CCC elevado (>20 días): " \o format_days(kccc) \o ".">> ELSE << >>
        r1 == IF Above(kdso, 450) THEN <<"Campaña dunning top-10 clientes (30-60-90).">> ELSE << >>
        r2 == IF Below(kdpo, 400) THEN <<"Renegociar 2-3 proveedores para ampliar plazos.">> ELSE << >>
        r3 == IF Above(kccc, 200) THEN <<"Calendario AR/AP semanal y control de gastos no esenciales (30d).">> ELSE << >>
        hallazgos == IF h1 \o h2 \o h3 = << >> THEN <<"KPIs dentro de rangos razonables para el mes.">> ELSE h1 \o h2 \o h3
        reco == IF h1 \o h2 \o h3 = << >> THEN <<"Mantener disciplina de caja y seguimiento semanal de aging.">> ELSE r1 \o r2 \o r3
        k1 == IF Above(kccc, 0) THEN <<"Presión de caja por ciclo de conversión positivo.">> ELSE << >>
        k2 == IF ~kdso.null /\ ~kdpo.null /\ kdso.v - kdpo.v > 100 THEN <<"Desbalance entre cobros y pagos (DSO mucho mayor que DPO).">> ELSE << >>
        riesgos == IF k1 \o k2 = << >> THEN <<"Riesgo moderado; continuar monitoreo semanal de AR/AP.">> ELSE k1 \o k2
        resumen == "KPIs: DSO=" \o format_days(kdso) \o ", DPO=" \o format_days(kdpo) \o ", CCC=" \o format_days(kccc) \o ". "
                   \o "Las cuentas por cobrar abiertas suman " \o format_currency(op_totals.ar_outstanding) \o " en "
                   \o NatStr(OrZero(op_totals.ar_open_invoices)) \o " facturas, "
                   \o "y las cuentas por pagar abiertas ascienden a " \o format_currency(op_totals.ap_outstanding) \o " en "
                   \o NatStr(OrZero(op_totals.ap_open_invoices)) \o " facturas. "
                   \o (IF ~op_totals.nwc_proxy.null
                       THEN "El capital de trabajo operativo proxy (NWC) es de " \o format_currency(op_totals.nwc_proxy) \o ". "
                       ELSE "")
                   \o "Informe estructurado con acciones tácticas para liquidez."
    IN  [resumen_ejecutivo |-> JStr(resumen),
         hallazgos |-> JList(Strs(hallazgos)),
         riesgos |-> JList(Strs(riesgos)),
         recomendaciones |-> JList(Strs(reco)),
         bsc |-> JDict(<<Entry("finanzas", JList(Strs(KpiBoard(ctx, op_totals)))),
                         Entry("clientes", JList(Strs(<<"Sin datos de NPS/Churn en este corte.">>))),
                         Entry("procesos_internos", JList(Strs(<<"Revisión de aging AR/AP semanal.">>))),
                         Entry("aprendizaje_crecimiento", JList(Strs(<<"Playbooks de cobranza y negociación de proveedores.">>)))>>),
         causalidad |-> JDict(<<Entry("hipotesis", JList(FirstTen(Dedup(Strs(causal_traditional))))),
                                Entry("enlaces", JList(<< >>))>>),
         ordenes_prioritarias |-> JList(<< >>)]

\* the sentence _post_process_report adds to the summary
ExtraLine(op_totals) ==
    " En este período, las cuentas por cobrar abiertas suman " \o format_currency(op_totals.ar_outstanding)
    \o " en " \o NatStr(OrZero(op_totals.ar_open_invoices)) \o " facturas, "
    \o "las cuentas por pagar abiertas ascienden a " \o format_currency(op_totals.ap_outstanding)
    \o " en " \o NatStr(OrZero(op_totals.ap_open_invoices)) \o " facturas, "
    \o (IF ~op_totals.nwc_proxy.null
        THEN "y el capital de trabajo operativo proxy (NWC) es de " \o format_currency(op_totals.nwc_proxy) \o "."
        ELSE "y el capital de trabajo operativo proxy (NWC) se reporta como N/D.")

\* extra_line.strip(): the sentence without its leading blank
ExtraLineStripped(op_totals) ==
    "En este período, las cuentas por cobrar abiertas suman " \o format_currency(op_totals.ar_outstanding)
    \o " en " \o NatStr(OrZero(op_totals.ar_open_invoices)) \o " facturas, "
    \o "las cuentas por pagar abiertas ascienden a " \o format_currency(op_totals.ap_outstanding)
    \o " en " \o NatStr(OrZero(op_totals.ap_open_invoices)) \o " facturas, "
    \o (IF ~op_totals.nwc_proxy.null
        THEN "y el capital de trabajo operativo proxy (NWC) es de " \o format_currency(op_totals.nwc_proxy) \o "."
        ELSE "y el capital de trabajo operativo proxy (NWC) se reporta como N/D.")

\* str(x) of a member of a narrative section
StrOf(j) == IF j.t = "null" THEN JStr("None") ELSE j

\* the loop over curr_orders + deterministic_orders: an entry that is not
\* an object has no .get, a title that is a list cannot enter the set seen
RECURSIVE OrdersLoop(_, _, _)
OrdersLoop(all, i, acc) ==
    IF i > Len(all) \/ acc.err /= "" THEN acc
    ELSE IF Truthy(all[i]) /\ all[i].t /= "dict" THEN [acc EXCEPT !.err = "AttributeError"]
    ELSE LET title == IF Truthy(all[i]) THEN Get(all[i], "title") ELSE JAbsent
         IN  IF ~Truthy(title) THEN OrdersLoop(all, i + 1, acc)
             ELSE IF ~Hashable(title) THEN [acc EXCEPT !.err = "TypeError"]
             ELSE IF title \in acc.seen THEN OrdersLoop(all, i + 1, acc)
             ELSE OrdersLoop(all, i + 1, [acc EXCEPT !.seen = @ \cup {title},
                                                     !.orders = Append(@, all[i])])

\* what _post_process_report leaves in bsc["finanzas"]
FinanzasKept(bsc, ctx, op_totals) ==
    IF Get(bsc, "finanzas").t = "list" THEN Get(bsc, "finanzas")
    ELSE JList(Strs(KpiBoard(ctx, op_totals)))
FinanzasWritten(bsc, ctx, op_totals) == JList(Strs(KpiBoard(ctx, op_totals)))

Sanitized(report, sec) ==
    IF TopGet(report, sec).t = "list"
    THEN TopPut(report, sec, JList([i \in 1..Len(report[sec].l) |-> StrOf(report[sec].l[i])]))
    ELSE report

\* _post_process_report: err names the exception it raises, "" when it
\* returns.  The narrative strings drawn below carry no think block, code
\* fence or outer blank, so _sanitize_text and strip() leave them as they are.
_post_process_report(report, ctx, op_totals, deterministic_orders, causal_traditional, causal_llm) ==
    LET bsc0 == IF TopGet(report, "bsc").t = "dict" THEN report["bsc"] ELSE JDict(<< >>)
        bsc == Put(bsc0, "finanzas", FinanzasWritten(bsc0, ctx, op_totals))
        resumen == TopGet(report, "resumen_ejecutivo")
        resumen2 == IF resumen.t = "str" /\ resumen.s /= ""
                    THEN resumen.s \o " " \o ExtraLine(op_totals)
                    ELSE ExtraLineStripped(op_totals)
        cz == IF TopGet(report, "causalidad").t = "dict" THEN report["causalidad"] ELSE JDict(<< >>)
        cz_h == Get(cz, "hipotesis")
        llm_ok == ~Truthy(causal_llm) \/ causal_llm.t = "list"
        all_h == (IF cz_h.t = "list" THEN cz_h.l ELSE << >>) \o Strs(causal_traditional)
                 \o (IF Truthy(causal_llm) /\ causal_llm.t = "list" THEN causal_llm.l ELSE << >>)
        hash_ok == \A i \in 1..Len(all_h) : Hashable(all_h[i])
        cz2 == Put(Put(cz, "hipotesis", JList(FirstTen(Dedup(all_h)))), "enlaces",
                   IF Get(cz, "enlaces").t = "list" THEN Get(cz, "enlaces") ELSE JList(<< >>))
        curr_orders == IF TopGet(report, "ordenes_prioritarias").t = "list"
                       THEN report["ordenes_prioritarias"].l ELSE << >>
        merged == OrdersLoop(curr_orders \o deterministic_orders, 1,
                             [err |-> "", seen |-> {}, orders |-> << >>])
        r1 == TopPut(TopPut(TopPut(TopPut(report, "bsc", bsc),
                                   "resumen_ejecutivo", JStr(resumen2)),
                            "causalidad", cz2),
                     "ordenes_prioritarias", JList(merged.orders))
    IN  IF ~llm_ok \/ ~hash_ok THEN [err |-> "TypeError", report |-> report]
        ELSE IF merged.err /= "" THEN [err |-> merged.err, report |-> report]
        ELSE [err |-> "", report |-> Sanitized(Sanitized(Sanitized(r1, "hallazgos"), "riesgos"), "recomendaciones")]

\* _llm_json: None when the call raises or no JSON is found, else the
\* parsed value, which may be an object or not
_llm_json(narr) == IF narr.kind = "object" THEN [isdict |-> TRUE, obj |-> narr.obj] ELSE [isdict |-> FALSE, obj |-> << >>]

NoReport == [x \in {} |-> JAbsent]
Raised(error) == [status |-> "raised", llm_ok |-> FALSE, error |-> error, report |-> NoReport]
Returned(report, llm_ok) == [status |-> "ok", llm_ok |-> llm_ok, error |-> "", report |-> report]

\* Agent.handle of av_gerente, from the trace and the narrative's behaviour
handle(tr, narr) ==
    LET ctx == _extract_context(tr)
        op_totals == _extract_operational_totals(tr, ctx)
        causal_traditional == causal_hypotheses(ctx)
        det_orders == _deterministic_orders(ctx)
        report_json == _llm_json(narr)
        cz0 == IF "causalidad" \in DOMAIN report_json.obj
               THEN report_json.obj["causalidad"] ELSE JDict(<< >>)
        causal_llm == IF Get(cz0, "hipotesis").t = "absent" THEN JList(<< >>) ELSE Get(cz0, "hipotesis")
        post == _post_process_report(report_json.obj, ctx, op_totals, det_orders, causal_traditional, causal_llm)
    IN  IF ~report_json.isdict
        THEN Returned(TopPut(_fallback_report(ctx, op_totals, causal_traditional),
                             "ordenes_prioritarias", JList(det_orders)), FALSE)
        ELSE IF cz0.t /= "dict" THEN Raised("AttributeError")
        ELSE IF post.err /= "" THEN Raised(post.err)
        ELSE Returned(post.report, TRUE)

(***************************************************************************)
(* The synthesizer as a state machine: module results arrive in the trace  *)
(* in the router's order, then handle runs once against one behaviour of   *)
(* the narrative backend.                                                  *)
(***************************************************************************)
MaxNarrativeKeys == 2

NoKpi == [DSO |-> Null, DPO |-> Null, CCC |-> Null]
Result(agent, kpi, total, open, bal) == [agent |-> agent, kpi |-> kpi, total |-> total, open |-> open, bal |-> bal]

CxcResults == { Result("aaav_cxc", [NoKpi EXCEPT !.DSO = d], t[1], t[2], NoBalances) : d \in {Null, Num(505)}, t \in {<<Null, Null>>, <<Num(123456789), Num(12)>>} }
CxpResults == { Result("aaav_cxp", [NoKpi EXCEPT !.DPO = d], t[1], t[2], NoBalances) : d \in {Null, Num(300)}, t \in {<<Null, Null>>, <<Num(40000), Num(1)>>} }
ContableKpis == {NoKpi, [DSO |-> Num(480), DPO |-> Num(300), CCC |-> Num(180)], [DSO |-> Num(480), DPO |-> Num(535), CCC |-> Num(-55)]}
ContableBalances == {NoBalances, [empty |-> FALSE, ar |-> Num(100000), ap |-> Num(40000), nwc |-> Num(60000)], [empty |-> FALSE, ar |-> Num(40000), ap |-> Num(60000), nwc |-> Num(-20000)]}
ContableResults == { Result("aav_contable", k, Null, Null, b) : k \in ContableKpis, b \in ContableBalances }

AgentRank(agent) == CASE agent = "aaav_cxc" -> 1 [] agent = "aaav_cxp" -> 2 [] OTHER -> 3
ModuleResults == CxcResults \cup CxpResults \cup ContableResults

\* the shapes the narrative may give to each field of its answer
NarrativeKeys == {"resumen_ejecutivo", "hallazgos", "riesgos", "recomendaciones", "bsc", "causalidad", "ordenes_prioritarias"}
SectionShapes == {JList(<<JStr("texto del narrador"), JNull>>), JStr("texto del narrador")}
Shapes(key) ==
    CASE key = "resumen_ejecutivo" -> {JStr("Resumen del narrador."), JNull}
      [] key = "bsc" -> {JStr("x"), JDict(<< >>),
                         JDict(<<Entry("finanzas", JList(<<JStr("DSO: 5 dias"), JStr("CxC abiertas: 1")>>))>>),
                         JDict(<<Entry("finanzas", JStr("DSO: 5 dias")), Entry("clientes", JList(<<JStr("NPS alto")>>))>>)}
      [] key = "causalidad" -> {JNull, JStr("x"), JDict(<< >>),
                                JDict(<<Entry("hipotesis", JList(<<JStr("hipotesis del narrador")>>))>>),
                                JDict(<<Entry("hipotesis", JStr("texto"))>>),
                                JDict(<<Entry("hipotesis", JList(<<JList(<<JStr("a")>>)>>))>>)}
      [] key = "ordenes_prioritarias" -> {JStr("x"),
                                          JList(<<JDict(<<Entry("title", JStr("Orden del narrador"))>>)>>),
                                          JList(<<JStr("x")>>),
                                          JList(<<JNull>>)}
      [] OTHER -> SectionShapes
AllShapes == UNION { Shapes(key) : key \in NarrativeKeys }
NarrativeObjects == UNION { {f \in [K -> AllShapes] : \A key \in K : f[key] \in Shapes(key)} : K \in {K \in SUBSET NarrativeKeys : Cardinality(K) <= MaxNarrativeKeys} }

SynthInit ==
    /\ trace = << >>
    /\ narrative = [kind |-> "none"]
    /\ spc = "trace"
    /\ result = [status |-> "none"]
    /\ LedgerIdle
    /\ IntentIdle
    /\ RouterIdle
    /\ PeriodIdle
    /\ KbIdle

\* the router appends a module's result to the trace
ModuleReturns ==
    /\ spc = "trace"
    /\ \E res \in ModuleResults :
         /\ \A i \in 1..Len(trace) : AgentRank(trace[i].agent) < AgentRank(res.agent)
         /\ trace' = Append(trace, res)
    /\ UNCHANGED <<narrative, spc, result, NotSynth>>

\* handle runs once: the narrative's behaviour and the value returned
Handled(narr) ==
    /\ narrative' = narr
    /\ \E r \in {handle(trace, narr)} : result' = r
    /\ spc' = "done"

\* handle, the narrative call raising
HandleLlmRaises ==
    /\ spc = "trace"
    /\ Handled([kind |-> "raise", obj |-> << >>])
    /\ UNCHANGED <<trace, NotSynth>>

\* handle, the narrative's text holding no JSON
HandleNoJson ==
    /\ spc = "trace"
    /\ Handled([kind |-> "no_json", obj |-> << >>])
    /\ UNCHANGED <<trace, NotSynth>>

\* handle, the narrative's text parsing to a JSON value that is no object
HandleNotObject ==
    /\ spc = "trace"
    /\ Handled([kind |-> "list", obj |-> << >>])
    /\ UNCHANGED <<trace, NotSynth>>

\* handle, the narrative's text parsing to an object
HandleObject ==
    /\ spc = "trace"
    /\ \E obj \in NarrativeObjects : Handled([kind |-> "object", obj |-> obj])
    /\ UNCHANGED <<trace, NotSynth>>

SynthNext == ModuleReturns \/ HandleLlmRaises \/ HandleNoJson \/ HandleNotObject \/ HandleObject

SpecSynth == SynthInit /\ [][SynthNext]_vars

Board(report) == IF TopGet(report, "bsc").t = "dict" THEN Get(report["bsc"], "finanzas") ELSE JAbsent
DeterministicBoard == LET ctx == _extract_context(trace) IN JList(Strs(KpiBoard(ctx, _extract_operational_totals(trace, ctx))))

\* C5: whenever the narrative's answer parses to an object and a report is
\* returned, the report's bsc.finanzas is the six fixed lines formatted from
\* the trace's DSO, DPO, CCC, open totals and counts and NWC, "N/D" standing
\* for a null value; nothing the narrative put in bsc.finanzas is left.
C5_KpiBoardOverwritten ==
    (spc = "done" /\ narrative.kind = "object" /\ result.status = "ok") =>
        Board(result.report) = DeterministicBoard

C5_Witness ==
    /\ spc = "done" /\ narrative.kind = "object" /\ result.status = "ok"
    /\ TopGet(narrative.obj, "bsc").t = "dict"
    /\ Get(narrative.obj["bsc"], "finanzas").t = "list"
    /\ Board(result.report).l[1].s = "DSO: N/D"
    /\ Board(result.report).l[4].s = "CxC abiertas: ₡1,234,567.89 en 12 facturas"
    /\ Board(result.report).l[6].s = "NWC proxy: ₡-200.00"

Sections == {"resumen_ejecutivo", "hallazgos", "riesgos", "recomendaciones", "bsc", "causalidad", "ordenes_prioritarias"}

\* C8: whatever the narrative backend does, handle returns, without
\* raising, a report holding summary, findings, risks, recommendations, KPI
\* board, causal hypotheses and priority orders, the KPI board being the
\* deterministic formatted lines.
C8_AlwaysACompleteReport ==
    spc = "done" =>
        /\ result.status = "ok"
        /\ \A sec \in Sections : TopGet(result.report, sec).t /= "absent"
        /\ Board(result.report) = DeterministicBoard

(***************************************************************************)
(* The orchestration router: router.py, graph_lc.py (run_query), and the   *)
(* handle / run_action / build_context of the receivable and payable       *)
(* modules.                                                                *)
(***************************************************************************)
NoMeta == [present |-> FALSE, flags |-> NoIntent]
Meta(flags) == [present |-> TRUE, flags |-> flags]

\* meta.get("intent") or {}: a missing intent reads as every flag unset
MetaIntent(meta) == IF meta.present THEN meta.flags ELSE NoIntent

Without(names, a) == SelectSeq(names, LAMBDA n : n /= a)
Has(names, a) == \E i \in 1..Len(names) : names[i] = a

\* decide_agents of app.intent.engine, then the guards of the router:
\* decided is the list decide_agents selected
_select_agents_with_meta(decided, meta_in) ==
    LET it == MetaIntent(meta_in)
        graph_cxc == it["cxc"]
        graph_cxp == it["cxp"]
        s1 == IF graph_cxp /\ ~graph_cxc THEN Without(decided, "aaav_cxc") ELSE decided
        s2 == IF graph_cxc /\ ~graph_cxp THEN Without(s1, "aaav_cxp") ELSE s1
        cxc_strong == graph_cxc \/ AnyFlag(it, {"vencimientos_rango", "top_clientes_cxc", "vencen_hoy_cxc", "cxc_pago_parcial", "saldo_cliente_cxc"})
        cxp_strong == graph_cxp \/ AnyFlag(it, {"cxp_abiertas_resumen", "aging_cxp", "top_proveedores_cxp", "saldo_proveedor_cxp"})
        s3 == IF cxc_strong /\ ~(graph_cxp /\ ~graph_cxc) /\ ~Has(s2, "aaav_cxc")
              THEN <<"aaav_cxc">> \o s2 ELSE s2
        s4 == IF cxp_strong /\ ~(graph_cxc /\ ~graph_cxp) /\ ~Has(s3, "aaav_cxp")
              THEN IF s3 /= << >> /\ s3[1] = "aaav_cxc"
                   THEN <<s3[1], "aaav_cxp">> \o Tail(s3) ELSE <<"aaav_cxp">> \o s3
              ELSE s3
    IN  Dedup(s4)

\* agent_sequence: the selection, with aav_contable appended when a
\* receivable or payable module is in it
AgentSequence(decided, meta_in) ==
    LET selected == Dedup(_select_agents_with_meta(decided, meta_in))
    IN  IF (Has(selected, "aaav_cxc") \/ Has(selected, "aaav_cxp")) /\ ~Has(selected, "aav_contable")
        THEN Append(selected, "aav_contable") ELSE selected

\* resolve_period as dispatch calls it: an explicit override (or the
\* date_range of _meta) first, then the caller's coarse period, else the
\* question's text or the default month
ResolvedPeriod(period_override, sidebar_period) ==
    IF period_override /= "" THEN [source |-> "param", window |-> period_override]
    ELSE IF sidebar_period /= "" THEN [source |-> "param", window |-> sidebar_period]
    ELSE [source |-> "nlp", window |-> "question"]

\* aaav_cxc Agent.handle: the action, from the payload or from the intent flags
CxcAction(action_raw, it) ==
    IF action_raw /= "" /\ action_raw /= "metrics" THEN action_raw
    ELSE IF it["vencimientos_rango"] THEN "cxc_due_between"
    ELSE IF it["top_clientes_cxc"] THEN "cxc_top_clients_open"
    ELSE IF it["vencen_hoy_cxc"] THEN "cxc_invoices_due_on"
    ELSE IF it["cxc_pago_parcial"] THEN "cxc_partial_payments"
    ELSE IF it["saldo_cliente_cxc"] THEN "cxc_customer_open_balance_on"
    ELSE "metrics"

\* aaav_cxp Agent.handle: the action, from the payload or from the intent flags
CxpAction(action_raw, it) ==
    IF action_raw /= "" /\ action_raw /= "metrics" THEN action_raw
    ELSE IF it["cxp_abiertas_resumen"] THEN "cxp_open_summary_as_of"
    ELSE IF it["aging_cxp"] \/ it["aging"] THEN "cxp_aging_as_of"
    ELSE IF it["top_proveedores_cxp"] THEN "cxp_top_suppliers_open"
    ELSE IF it["saldo_proveedor_cxp"] THEN "cxp_supplier_open_balance_on"
    ELSE "metrics"

\* ACTIONS.get(action, action_metrics), and the handlers that query the store
CxcHandlers == {"metrics", "top_overdue", "customer_balance", "list_open", "list_overdue"}
CxpHandlers == {"metrics", "aging", "top_overdue", "due_soon", "supplier_balance", "list_open", "cxp_aging_as_of", "cxp_top_suppliers_open", "cxp_supplier_open_balance_on", "cxp_open_summary_as_of"}
Handler(agent, action) ==
    IF action \in (IF agent = "aaav_cxc" THEN CxcHandlers ELSE CxpHandlers) THEN action ELSE "metrics"
MissingParam(handler) == handler \in {"customer_balance", "supplier_balance", "cxp_supplier_open_balance_on"}
QueriesStore(handler) == handler \notin {"metrics", "aging"} /\ ~MissingParam(handler)

\* a module's result as the router's trace keeps it
TraceEntry(agent, error, kdso, kdpo, kccc, action) == [agent |-> agent, error |-> error, dso |-> kdso, dpo |-> kdpo, ccc |-> kccc, action |-> action]

\* the payload of a handle call, as the calls log keeps it
Payload(meta, period, action, full, tr) == [meta |-> meta, period |-> period, action |-> action, full |-> full, trace |-> tr]

\* the KPI the store gives when its query does not fail
StoreKpi(agent) == IF agent = "aaav_cxc" THEN Num(505) ELSE Num(300)

\* Agent.handle of aaav_cxc / aaav_cxp down to run_action and build_context:
\* the KPI query is guarded (None on failure), the aging query is guarded
\* (an error result), the action's own query is not
ModuleHandle(agent, payload, store) ==
    LET fails == store[agent]
        action == IF agent = "aaav_cxc" THEN CxcAction(payload.action, MetaIntent(payload.meta))
                  ELSE CxpAction(payload.action, MetaIntent(payload.meta))
        handler == Handler(agent, action)
        kpi == IF "kpi" \in fails THEN Null ELSE StoreKpi(agent)
    IN  IF "aging" \in fails
        THEN [raised |-> "", result |-> TraceEntry(agent, TRUE, Null, Null, Null, "")]
        ELSE IF MissingParam(handler)
        THEN [raised |-> "", result |-> TraceEntry(agent, TRUE, Null, Null, Null, handler)]
        ELSE IF QueriesStore(handler) /\ "action" \in fails
        THEN [raised |-> store.exc, result |-> TraceEntry(agent, TRUE, Null, Null, Null, handler)]
        ELSE [raised |-> "", result |-> TraceEntry(agent, FALSE,
                                                   IF agent = "aaav_cxc" THEN kpi ELSE Null,
                                                   IF agent = "aaav_cxp" THEN kpi ELSE Null,
                                                   Null, handler)]

\* cxc_blob / cxp_blob: the module's result when it carries no error
Blob(tr, agent) ==
    LET I == {i \in 1..Len(tr) : tr[i].agent = agent /\ ~tr[i].error}
    IN  IF I = {} THEN [present |-> FALSE, kpi |-> Null]
        ELSE LET e == tr[CHOOSE i \in I : \A j \in I : i >= j]
             IN  [present |-> TRUE, kpi |-> IF agent = "aaav_cxc" THEN e.dso ELSE e.dpo]

\* Agent.handle of aav_contable: an error without data of either
\* direction, else DSO, DPO and CCC = DSO - DPO when both are known
ContableHandle(cxc_blob, cxp_blob) ==
    IF ~cxc_blob.present /\ ~cxp_blob.present
    THEN TraceEntry("aav_contable", TRUE, Null, Null, Null, "")
    ELSE TraceEntry("aav_contable", FALSE, cxc_blob.kpi, cxp_blob.kpi,
                    IF ~cxc_blob.kpi.null /\ ~cxp_blob.kpi.null
                    THEN Num(cxc_blob.kpi.v - cxp_blob.kpi.v) ELSE Null, "")

\* _derive_metrics_from_trace: the consolidation's KPI first, then the
\* mirror of any module
Metric(tr, key) ==
    LET C == {i \in 1..Len(tr) : tr[i].agent = "aav_contable" /\ ~tr[i][key].null}
        A == {i \in 1..Len(tr) : ~tr[i][key].null}
    IN  IF C /= {} THEN tr[CHOOSE i \in C : \A j \in C : i <= j][key]
        ELSE IF A /= {} THEN tr[CHOOSE i \in A : \A j \in A : i <= j][key]
        ELSE Null
_derive_metrics_from_trace(tr) == [dso |-> Metric(tr, "dso"), dpo |-> Metric(tr, "dpo"), ccc |-> Metric(tr, "ccc"), cash |-> Null]

\* the trace as av_gerente reads it: data.kpi of each entry
AsModuleResult(e) ==
    Result(e.agent, IF e.agent = "aav_contable" THEN [DSO |-> e.dso, DPO |-> e.dpo, CCC |-> e.ccc]
                    ELSE IF e.agent = "aaav_cxc" THEN [NoKpi EXCEPT !.DSO = e.dso]
                    ELSE [NoKpi EXCEPT !.DPO = e.dpo], Null, Null, NoBalances)
\* the report av_gerente returns to the router: its deterministic one
GerenteReport(tr) ==
    LET mr == [i \in 1..Len(tr) |-> AsModuleResult(tr[i])]
        ctx == _extract_context(mr)
    IN  _fallback_report(ctx, _extract_operational_totals(mr, ctx), causal_hypotheses(ctx))
Texts(j) == [i \in 1..Len(j.l) |-> j.l[i].s]

\* the result of dispatch when no agent was selected
NoSignals(period) ==
    [reason |-> "no-signals",
     resumen_ejecutivo |-> "No se activaron agentes: la pregunta no aportó señales suficientes.",
     recomendaciones |-> <<"Especifica si deseas CxC, CxP o consolidado contable.",
                           "Incluye al menos un KPI o proceso (p. ej., DSO, DPO, CCC, aging).",
                           "Añade un período (p. ej., 'agosto 2025' o 'esta semana').">>,
     finanzas |-> << >>,
     metrics |-> [dso |-> Null, dpo |-> Null, ccc |-> Null, cash |-> Null],
     router_sequence |-> << >>,
     period_resolved |-> period,
     error |-> ""]

\* the result of dispatch after the synthesizer returned
UiResult(tr, agent_sequence, period) ==
    LET executive == GerenteReport(tr)
    IN  [reason |-> "router-exhaustive",
         resumen_ejecutivo |-> executive["resumen_ejecutivo"].s,
         recomendaciones |-> Texts(executive["recomendaciones"]),
         finanzas |-> Texts(Get(executive["bsc"], "finanzas")),
         metrics |-> _derive_metrics_from_trace(tr),
         router_sequence |-> Append(agent_sequence, "av_gerente"),
         period_resolved |-> period,
         error |-> ""]

\* an exception leaves dispatch
DispatchRaised(exc, period) == [NoSignals(period) EXCEPT !.reason = "raised", !.recomendaciones = << >>, !.resumen_ejecutivo = "", !.error = exc]

(***************************************************************************)
(* The router as a state machine: a request enters through run_query or    *)
(* through dispatch itself, then dispatch walks its sequence.              *)
(***************************************************************************)
Modules == <<"aaav_cxc", "aaav_cxp", "aav_contable">>
DecidedLists == {<< >>, <<"aaav_cxc">>, <<"aaav_cxp">>, <<"aav_contable">>, <<"aaav_cxc", "aaav_cxp">>, <<"aaav_cxp", "aaav_cxc">>, <<"aaav_cxc", "aaav_cxc">>, <<"aaav_cxp", "aav_contable", "aaav_cxc">>}

\* Intents route_intent returns
ClassifiedIntents == {LlmErrorIntent, [NoIntent EXCEPT !.informe = TRUE], [NoIntent EXCEPT !.cxp = TRUE, !.cxp_abiertas_resumen = TRUE], [NoIntent EXCEPT !.cxc = TRUE, !.vencimientos_rango = TRUE], [NoIntent EXCEPT !.cxp = TRUE, !.aging = TRUE, !.aging_cxp = TRUE]}

\* the _meta a direct caller of dispatch may pass
Metas == {NoMeta, Meta(NoIntent)} \cup { Meta(it) : it \in ClassifiedIntents }

\* the store queries that fail during the request, per module
FailSteps == {{}, {"kpi"}, {"aging"}, {"action"}}
Stores == { [aaav_cxc |-> c, aaav_cxp |-> p, exc |-> "OperationalError"] : c \in FailSteps, p \in FailSteps } \cup { [aaav_cxc |-> c, aaav_cxp |-> p, exc |-> "TypeError"] : c \in {{"action"}}, p \in {{}, {"action"}} }

Request(entry, classified, meta, action, period, decided, store, narrative_raises) ==
    [entry |-> entry, classified |-> classified, meta |-> meta, action |-> action, period |-> period,
     decided |-> decided, store |-> store, narrative_raises |-> narrative_raises]

RouterInit ==
    /\ req = [entry |-> "none"]
    /\ rpc = "ready"
    /\ seq = << >>
    /\ calls = << >>
    /\ rtrace = << >>
    /\ resp = [reason |-> "none"]
    /\ LedgerIdle
    /\ IntentIdle
    /\ SynthIdle
    /\ PeriodIdle
    /\ KbIdle

NoAgentsNever(agent_sequence) == FALSE
\* line 227: if not agent_sequence
NoAgents(agent_sequence) == agent_sequence = << >>

\* lines 174-252 of dispatch: resolve the period, select the agents, and
\* return at once when none is selected
Enter(r) ==
    /\ req' = r
    /\ seq' = AgentSequence(r.decided, r.meta)
    /\ calls' = << >>
    /\ rtrace' = << >>
    /\ IF NoAgents(AgentSequence(r.decided, r.meta))
       THEN /\ resp' = NoSignals(r.period)
            /\ rpc' = "done"
       ELSE /\ resp' = resp
            /\ rpc' = "modules"

\* run_query: classify, build the payload {question, period} (plus
\* period_override when the question holds a date range) and dispatch it
RunQuery ==
    /\ rpc = "ready"
    /\ \E it \in ClassifiedIntents, two_dates \in BOOLEAN, sidebar \in {"", "2025-10"}, decided \in DecidedLists, store \in Stores, nr \in BOOLEAN :
         Enter(Request("run_query", Meta(it), NoMeta, "",
                       ResolvedPeriod(IF it["vencimientos_rango"] /\ two_dates THEN "rango_pregunta" ELSE "", sidebar),
                       decided, store, nr))
    /\ UNCHANGED NotRouter

\* run_query when route_intent raises: no intent, the same payload
RunQueryIntentError ==
    /\ rpc = "ready"
    /\ \E sidebar \in {"", "2025-10"}, decided \in DecidedLists, store \in Stores, nr \in BOOLEAN :
         Enter(Request("run_query", NoMeta, NoMeta, "", ResolvedPeriod("", sidebar), decided, store, nr))
    /\ UNCHANGED NotRouter

\* dispatch called with a payload that carries _meta and maybe an action
Dispatch ==
    /\ rpc = "ready"
    /\ \E meta \in Metas, action \in {"", "metrics", "list_open"}, override \in {"", "override"}, sidebar \in {"", "2025-10"}, decided \in DecidedLists, store \in Stores, nr \in BOOLEAN :
         Enter(Request("dispatch", NoMeta, meta, action, ResolvedPeriod(override, sidebar), decided, store, nr))
    /\ UNCHANGED NotRouter

Call(agent, payload) == [agent |-> agent, payload |-> payload]

\* the modules of the loop at lines 271-286: the sequence without aav_contable
LoopAgents == Without(seq, "aav_contable")

\* one turn of the loop: handle with the base payload, once more with the
\* reduced payload after a TypeError; any other exception leaves dispatch
RunModule ==
    /\ rpc = "modules"
    /\ Len(rtrace) < Len(LoopAgents)
    /\ LET agent == LoopAgents[Len(rtrace) + 1]
           base == Payload(req.meta, req.period, req.action, TRUE, << >>)
           reduced == Payload(req.meta, req.period, "", FALSE, << >>)
       IN  \E first \in {ModuleHandle(agent, base, req.store)} : \E second \in {ModuleHandle(agent, reduced, req.store)} :
             LET retried == first.raised = "TypeError"
                 final == IF retried THEN second ELSE first
             IN  /\ calls' = calls \o <<Call(agent, base)>> \o (IF retried THEN <<Call(agent, reduced)>> ELSE << >>)
                 /\ IF final.raised /= ""
                    THEN /\ rpc' = "raised"
                         /\ resp' = DispatchRaised(final.raised, req.period)
                         /\ rtrace' = rtrace
                    ELSE /\ rtrace' = Append(rtrace, final.result)
                         /\ rpc' = IF Len(rtrace) + 1 < Len(LoopAgents) THEN "modules" ELSE "contable"
                         /\ resp' = resp
    /\ UNCHANGED <<req, seq, NotRouter>>

\* the loop has nothing to run: the selection holds aav_contable alone
SkipModules ==
    /\ rpc = "modules"
    /\ LoopAgents = << >>
    /\ rpc' = "contable"
    /\ UNCHANGED <<req, seq, calls, rtrace, resp, NotRouter>>

\* run_contable: selected, or a module left a result without error
RunContableIf(agent_sequence, cxc_blob, cxp_blob) ==
    Has(agent_sequence, "aav_contable") \/ cxc_blob.present \/ cxp_blob.present

\* lines 289-302: the consolidation, after the loop
RunContable ==
    /\ rpc = "contable"
    /\ LET cxc_blob == Blob(rtrace, "aaav_cxc")
           cxp_blob == Blob(rtrace, "aaav_cxp")
       IN  IF RunContableIf(seq, cxc_blob, cxp_blob)
           THEN /\ calls' = Append(calls, Call("aav_contable", Payload(req.meta, req.period, "", FALSE, << >>)))
                /\ rtrace' = Append(rtrace, ContableHandle(cxc_blob, cxp_blob))
           ELSE UNCHANGED <<calls, rtrace>>
    /\ rpc' = "gerente"
    /\ UNCHANGED <<req, seq, resp, NotRouter>>

\* lines 305-354: the synthesizer over the trace, then the result for the UI
RunGerente ==
    /\ rpc = "gerente"
    /\ calls' = Append(calls, Call("av_gerente", Payload(req.meta, req.period, "", FALSE, rtrace)))
    /\ IF req.narrative_raises
       THEN /\ rpc' = "raised"
            /\ resp' = DispatchRaised("AttributeError", req.period)
       ELSE /\ rpc' = "done"
            /\ \E r \in {UiResult(rtrace, seq, req.period)} : resp' = r
    /\ UNCHANGED <<req, seq, rtrace, NotRouter>>

RouterNext == RunQuery \/ RunQueryIntentError \/ Dispatch \/ RunModule \/ SkipModules \/ RunContable \/ RunGerente

SpecRouter == RouterInit /\ [][RouterNext]_vars

(***************************************************************************)
(* Properties of the router.                                               *)
(***************************************************************************)
Terminal == rpc \in {"done", "raised"}
CallsOf(agents) == {i \in 1..Len(calls) : calls[i].agent \in agents}
Directions == {"aaav_cxc", "aaav_cxp"}
EntriesOf(agent) == {i \in 1..Len(rtrace) : rtrace[i].agent = agent}

\* C6: in every dispatch with a non-empty selection, every receivable or
\* payable module invocation completes before consolidation is invoked,
\* consolidation is invoked whenever one of those modules returned a result
\* without error, and the synthesizer is invoked exactly once, after every
\* other invocation, over the trace of all of them.
C6_ModulesThenConsolidationThenSynthesis ==
    (Terminal /\ seq /= << >>) =>
        /\ \A i \in CallsOf(Directions) : \A j \in CallsOf({"aav_contable"}) : i < j
        /\ (\E i \in 1..Len(rtrace) : rtrace[i].agent \in Directions /\ ~rtrace[i].error) => CallsOf({"aav_contable"}) /= {}
        /\ CallsOf({"av_gerente"}) = {Len(calls)}
        /\ Len(calls) > 0
        /\ calls[Len(calls)].payload.trace = rtrace
        /\ \A i \in 1..Len(calls) : calls[i].agent /= "av_gerente" => EntriesOf(calls[i].agent) /= {}

\* the module's store fails in a step the request makes it execute
ModuleFails(agent) ==
    LET fails == req.store[agent]
        action == IF agent = "aaav_cxc" THEN CxcAction(req.action, MetaIntent(req.meta))
                  ELSE CxpAction(req.action, MetaIntent(req.meta))
    IN  \/ "kpi" \in fails
        \/ "aging" \in fails
        \/ "action" \in fails /\ QueriesStore(Handler(agent, action))

\* C7: when a receivable or payable module fails during a dispatch (a store
\* query raising in its KPI, aging or action step), dispatch does not raise,
\* the trace holds an error-tagged entry for that module, and every
\* remaining selected module, the consolidation when applicable and the
\* synthesizer are still executed.
C7_ModuleFailureDoesNotAbort ==
    (Terminal /\ seq /= << >> /\ ~req.narrative_raises) =>
        \A k \in 1..Len(LoopAgents) : ModuleFails(LoopAgents[k]) =>
            /\ rpc = "done"
            /\ \E i \in EntriesOf(LoopAgents[k]) : rtrace[i].error
            /\ \A m \in 1..Len(LoopAgents) : CallsOf({LoopAgents[m]}) /= {}
            /\ Has(seq, "aav_contable") => CallsOf({"aav_contable"}) /= {}
            /\ CallsOf({"av_gerente"}) /= {}

\* C9: when the selection is empty, dispatch returns a result without error
\* that says the signal was insufficient and carries guidance, every
\* derived metric is null, the KPI board is empty, and no module is
\* invoked: neither receivable, payable, consolidation nor the synthesizer.
C9_EmptySelectionInvokesNothing ==
    (req.entry /= "none" /\ seq = << >>) =>
        /\ rpc = "done"
        /\ resp.reason = "no-signals"
        /\ resp.error = ""
        /\ resp.recomendaciones /= << >>
        /\ \A key \in {"dso", "dpo", "ccc", "cash"} : resp.metrics[key] = Null
        /\ resp.finanzas = << >>
        /\ resp.router_sequence = << >>
        /\ calls = << >>

\* a dispatch whose _meta carries an intent, yet nothing is selected
C9_Witness ==
    /\ rpc = "done"
    /\ req.entry = "dispatch"
    /\ req.meta.present
    /\ req.meta.flags["informe"]
    /\ seq = << >>
    /\ resp.reason = "no-signals"
    /\ calls = << >>

\* C10: in the pipeline run_query (classify, then dispatch), every
\* receivable or payable module invocation receives in its payload the
\* Intent flags the classifier produced for the question and the shared
\* resolved TimeWindow.
C10_ModulesReceiveClassifiedIntent ==
    req.entry = "run_query" =>
        \A i \in CallsOf(Directions) :
            /\ MetaIntent(calls[i].payload.meta) = MetaIntent(req.classified)
            /\ calls[i].payload.period = req.period

(***************************************************************************)
(* Dates and periods: dates/period_resolver.py, the date helpers of        *)
(* graph_lc.py and of agents/intent.py, and the period step of             *)
(* Router.dispatch.                                                        *)
(*                                                                         *)
(* A datetime is [y, m, d, sod]: the calendar day and the second of the    *)
(* day, in the zone America/Costa_Rica.                                    *)
(***************************************************************************)
IsLeap(y) == (y % 4 = 0 /\ y % 100 /= 0) \/ y % 400 = 0

\* calendar.monthrange(year, month)[1]
DaysInMonth(y, m) ==
    IF m = 2 THEN (IF IsLeap(y) THEN 29 ELSE 28)
    ELSE IF m \in {4, 6, 9, 11} THEN 30 ELSE 31

\* datetime(year, month, day, ...) raises ValueError outside these
ValidDate(y, m, d) == y >= 1 /\ y <= 9999 /\ m >= 1 /\ m <= 12 /\ d >= 1 /\ d <= DaysInMonth(y, m)

DateTime(y, m, d, sod) == [y |-> y, m |-> m, d |-> d, sod |-> sod]
StartOfDay == 0
EndOfDay == 86399

\* a <= b on datetimes
DtLeq(a, b) ==
    \/ a.y < b.y
    \/ a.y = b.y /\ a.m < b.m
    \/ a.y = b.y /\ a.m = b.m /\ a.d < b.d
    \/ a.y = b.y /\ a.m = b.m /\ a.d = b.d /\ a.sod <= b.sod

RECURSIVE DaysBeforeMonth(_, _)
DaysBeforeMonth(y, m) == IF m = 1 THEN 0 ELSE DaysBeforeMonth(y, m - 1) + DaysInMonth(y, m - 1)

\* date.toordinal(): 1 is the first of January of year 1
toordinal(dt) ==
    LET p == dt.y - 1
    IN  p * 365 + p \div 4 - p \div 100 + p \div 400 + DaysBeforeMonth(dt.y, dt.m) + dt.d

\* date.weekday(): 0 is Monday
weekday(dt) == (toordinal(dt) + 6) % 7

\* dt + timedelta(days=k)
RECURSIVE AddDays(_, _)
AddDays(dt, k) ==
    IF dt.d + k < 1
    THEN LET py == IF dt.m = 1 THEN dt.y - 1 ELSE dt.y
             pm == IF dt.m = 1 THEN 12 ELSE dt.m - 1
         IN  AddDays([dt EXCEPT !.y = py, !.m = pm, !.d = DaysInMonth(py, pm)], k + dt.d)
    ELSE IF dt.d + k > DaysInMonth(dt.y, dt.m)
    THEN LET ny == IF dt.m = 12 THEN dt.y + 1 ELSE dt.y
             nm == IF dt.m = 12 THEN 1 ELSE dt.m + 1
         IN  AddDays([dt EXCEPT !.y = ny, !.m = nm, !.d = 1], k - (DaysInMonth(dt.y, dt.m) - dt.d + 1))
    ELSE [dt EXCEPT !.d = dt.d + k]

_start_of_month(y, m) == DateTime(y, m, 1, StartOfDay)
_end_of_month(y, m) == DateTime(y, m, DaysInMonth(y, m), EndOfDay)

DigitVal(c) == CASE c = "0" -> 0 [] c = "1" -> 1 [] c = "2" -> 2 [] c = "3" -> 3 [] c = "4" -> 4 [] c = "5" -> 5 [] c = "6" -> 6 [] c = "7" -> 7 [] c = "8" -> 8 [] OTHER -> 9

\* int() of the n digits of s from position i
RECURSIVE NumAt(_, _, _)
NumAt(s, i, n) == IF n = 0 THEN 0 ELSE NumAt(s, i, n - 1) * 10 + DigitVal(s[i + n - 1])

Least(S) == CHOOSE i \in S : \A j \in S : i <= j

\* the characters of s from position i up to, not including, position j
Slice(s, i, j) == SubSeq(s, i, j - 1)

\* \s* from position i: the position of the first character that is not a space
RECURSIVE SpaceEnd(_, _)
SpaceEnd(s, i) == IF i <= Len(s) /\ IsSpace(s[i]) THEN SpaceEnd(s, i + 1) ELSE i

\* the class [a-záéíóú]
RxLetters == LowerLetters \ {"ü", "ñ"}

\* [a-záéíóú]* from position i: the position after the run
RECURSIVE LettersEnd(_, _)
LettersEnd(s, i) == IF i <= Len(s) /\ s[i] \in RxLetters THEN LettersEnd(s, i + 1) ELSE i

\* \d{1,2} at position i: the number of digits the greedy quantifier takes
Digits12(s, i) == IF AllDigits(s, i, 2) THEN 2 ELSE IF AllDigits(s, i, 1) THEN 1 ELSE 0

CharAt(s, i, c) == i >= 1 /\ i <= Len(s) /\ s[i] = c

\* SPANISH_MONTHS
SPANISH_MONTHS ==
    << <<<<"e", "n", "e", "r", "o">>, 1>>,
       <<<<"f", "e", "b", "r", "e", "r", "o">>, 2>>,
       <<<<"m", "a", "r", "z", "o">>, 3>>,
       <<<<"a", "b", "r", "i", "l">>, 4>>,
       <<<<"m", "a", "y", "o">>, 5>>,
       <<<<"j", "u", "n", "i", "o">>, 6>>,
       <<<<"j", "u", "l", "i", "o">>, 7>>,
       <<<<"a", "g", "o", "s", "t", "o">>, 8>>,
       <<<<"s", "e", "p", "t", "i", "e", "m", "b", "r", "e">>, 9>>,
       <<<<"s", "e", "t", "i", "e", "m", "b", "r", "e">>, 9>>,
       <<<<"o", "c", "t", "u", "b", "r", "e">>, 10>>,
       <<<<"n", "o", "v", "i", "e", "m", "b", "r", "e">>, 11>>,
       <<<<"d", "i", "c", "i", "e", "m", "b", "r", "e">>, 12>> >>

\* SPANISH_MONTHS.get(word), 0 when the word is no month
MonthOf(word) ==
    IF \E k \in 1..Len(SPANISH_MONTHS) : SPANISH_MONTHS[k][1] = word
    THEN SPANISH_MONTHS[CHOOSE k \in 1..Len(SPANISH_MONTHS) : SPANISH_MONTHS[k][1] = word][2]
    ELSE 0

\* QUARTERS: the first and the last month of quarter q
QuarterFirst(q) == 3 * q - 2
QuarterLast(q) == 3 * q

\* re.search of "del?\s*(\d{1,2})\s*al?\s*(\d{1,2})\s*de?\s*([a-záéíóú]+)(?:\s*de?\s*(\d{4}))?"
\* tried at position i, one piece of the pattern after the other; the
\* positions found so far are handed on: a and c are the two day numbers'
\* positions, n1 and n2 their lengths, b0 and e the positions of "a" and of
\* "d", f..g the word, h the position after the spaces behind it, yy the
\* year's position
RangeYear(s, h, yy) == CharAt(s, h, "d") /\ AllDigits(s, yy, 4)

RangeMatch(s, i, a, n1, b0, c, n2, e, f, g, h, yy) ==
    IF /\ CharAt(s, i, "d") /\ CharAt(s, i + 1, "e")
       /\ n1 > 0 /\ CharAt(s, b0, "a")
       /\ n2 > 0 /\ CharAt(s, e, "d")
       /\ g > f
    THEN [ok |-> TRUE, d1 |-> NumAt(s, a, n1), d2 |-> NumAt(s, c, n2), word |-> Slice(s, f, g),
          hasYear |-> RangeYear(s, h, yy), year |-> IF RangeYear(s, h, yy) THEN NumAt(s, yy, 4) ELSE 0,
          match |-> Slice(s, i, IF RangeYear(s, h, yy) THEN yy + 4 ELSE g)]
    ELSE [ok |-> FALSE]

RangeAfterWord(s, i, a, n1, b0, c, n2, e, f, g, h) ==
    RangeMatch(s, i, a, n1, b0, c, n2, e, f, g, h, SpaceEnd(s, IF CharAt(s, h + 1, "e") THEN h + 2 ELSE h + 1))

RangeWord(s, i, a, n1, b0, c, n2, e, f) ==
    RangeAfterWord(s, i, a, n1, b0, c, n2, e, f, LettersEnd(s, f), SpaceEnd(s, LettersEnd(s, f)))

\* "de?\s*" gives the "e" back when the word would otherwise be empty
RangeDe(s, i, a, n1, b0, c, n2, e) ==
    RangeWord(s, i, a, n1, b0, c, n2, e,
              IF CharAt(s, e + 1, "e") /\ SpaceEnd(s, e + 2) <= Len(s) /\ s[SpaceEnd(s, e + 2)] \in RxLetters
              THEN SpaceEnd(s, e + 2)
              ELSE IF CharAt(s, e + 1, "e") THEN e + 1
              ELSE SpaceEnd(s, e + 1))

RangeDay2(s, i, a, n1, b0, c) ==
    RangeDe(s, i, a, n1, b0, c, Digits12(s, c), SpaceEnd(s, c + Digits12(s, c)))

RangeAl(s, i, a, n1, b0) ==
    RangeDay2(s, i, a, n1, b0, SpaceEnd(s, IF CharAt(s, b0 + 1, "l") THEN b0 + 2 ELSE b0 + 1))

RangeDay1(s, i, a) == RangeAl(s, i, a, Digits12(s, a), SpaceEnd(s, a + Digits12(s, a)))

RangeAt(s, i) == RangeDay1(s, i, SpaceEnd(s, IF CharAt(s, i + 2, "l") THEN i + 3 ELSE i + 2))

\* re.search of "\b(\d{1,2})\s+de\s+([a-záéíóú]+)(?:\s+de\s+(\d{4}))?\b" tried
\* at position i; n is the day's length, a the position of "de", f..g the
\* word, h and yy as above
SpanishYear(s, g, h, yy) ==
    /\ h > g /\ CharAt(s, h, "d") /\ CharAt(s, h + 1, "e")
    /\ yy > h + 2 /\ AllDigits(s, yy, 4) /\ WordBoundary(s, yy + 4)

SpanishMatch(s, i, n, a, f, g, h, yy) ==
    IF /\ WordBoundary(s, i) /\ n > 0
       /\ CharAt(s, a, "d") /\ CharAt(s, a + 1, "e") /\ f > a + 2
       /\ g > f
       /\ (SpanishYear(s, g, h, yy) \/ WordBoundary(s, g))
    THEN [ok |-> TRUE, d |-> NumAt(s, i, n), word |-> Slice(s, f, g),
          hasYear |-> SpanishYear(s, g, h, yy), year |-> IF SpanishYear(s, g, h, yy) THEN NumAt(s, yy, 4) ELSE 0]
    ELSE [ok |-> FALSE]

SpanishAfterWord(s, i, n, a, f, g, h) == SpanishMatch(s, i, n, a, f, g, h, SpaceEnd(s, h + 2))

SpanishWord(s, i, n, a, f) == SpanishAfterWord(s, i, n, a, f, LettersEnd(s, f), SpaceEnd(s, LettersEnd(s, f)))

SpanishDe(s, i, n, a) == SpanishWord(s, i, n, a, SpaceEnd(s, a + 2))

SpanishDay(s, i, n) == SpanishDe(s, i, n, SpaceEnd(s, i + n))

SpanishDateAt(s, i) ==
    SpanishDay(s, i, IF AllDigits(s, i, 2) /\ i + 2 <= Len(s) /\ IsSpace(s[i + 2]) THEN 2
                     ELSE IF AllDigits(s, i, 1) /\ i + 1 <= Len(s) /\ IsSpace(s[i + 1]) THEN 1 ELSE 0)

\* "\b(\d{4})-(\d{2})\b" matches at position i
YearMonthAt(s, i) ==
    /\ WordBoundary(s, i) /\ AllDigits(s, i, 4) /\ CharAt(s, i + 4, "-")
    /\ AllDigits(s, i + 5, 2) /\ WordBoundary(s, i + 7)

\* "(q[1-4])\s*(\d{4})" matches at position i
QuarterAt(s, i) ==
    /\ CharAt(s, i, "q") /\ i + 1 <= Len(s) /\ s[i + 1] \in {"1", "2", "3", "4"}
    /\ AllDigits(s, SpaceEnd(s, i + 2), 4)

\* "([a-záéíóú]+)\s+(\d{4})" matches at position i
WordYearAt(s, i) ==
    LET g == LettersEnd(s, i)
    IN  g > i /\ SpaceEnd(s, g) > g /\ AllDigits(s, SpaceEnd(s, g), 4)

\* "\b(enero|febrero|...|diciembre)\b" at position i: the month, 0 when none
BareMonthAt(s, i) ==
    IF \E k \in 1..Len(SPANISH_MONTHS) : WordAt(s, i, SPANISH_MONTHS[k][1])
    THEN SPANISH_MONTHS[CHOOSE k \in 1..Len(SPANISH_MONTHS) : WordAt(s, i, SPANISH_MONTHS[k][1])][2]
    ELSE 0

\* the first date the resolver's ISO pattern "\b(\d{4})-(\d{2})-(\d{2})\b"
\* finds
StrictIsoShape == <<4, 2, 2>>
StrictIsoAt(s, i) == ShapeAt(s, i, "-", StrictIsoShape)

\* the shape with which _RX_DATE_DMY or _RX_DATE_ISO matches at position i
ShapeOf(s, i, sep, shapes) ==
    shapes[Least({n \in 1..Len(shapes) : ShapeAt(s, i, sep, shapes[n])})]

\* the three numbers of the date that matches at position i with shape sh
Fields(s, i, sh) ==
    <<NumAt(s, i, sh[1]), NumAt(s, i + sh[1] + 1, sh[2]), NumAt(s, i + sh[1] + sh[2] + 2, sh[3])>>

\* the "text" of a window: what kind it is, the date or the matched text
Label(kind, y, m, d, s) == [kind |-> kind, y |-> y, m |-> m, d |-> d, s |-> s]

Window(label, start, end, granularity, source) ==
    [status |-> "ok", text |-> label, start |-> start, end |-> end, granularity |-> granularity, source |-> source]

\* the constructor datetime(...) raised
ValueError == [status |-> "raised", error |-> "ValueError"]

\* the window of a month, ValueError when datetime rejects year or month
MonthWindow(label, y, mo, granularity, source) ==
    IF ValidDate(y, mo, 1)
    THEN Window(label, _start_of_month(y, mo), _end_of_month(y, mo), granularity, source)
    ELSE ValueError

\* minutes east of UTC of America/Costa_Rica
TZ == -360

\* datetime.fromisoformat(text).astimezone(TZ) of a time written with the
\* offset off (minutes east of UTC)
astimezone(dt, off) ==
    LET total == dt.sod + (TZ - off) * 60
        day == AddDays(dt, total \div 86400)
    IN  [day EXCEPT !.sod = total % 86400]

\* no override, and an override dict of the caller
NoOverride == [truthy |-> FALSE]
Override(start, end, text, granularity) == [truthy |-> TRUE, start |-> start, end |-> end, text |-> text, granularity |-> granularity]
NoField == [null |-> TRUE]
IsoField(dt, off) == [null |-> FALSE, dt |-> dt, off |-> off]
TextField(s) == [null |-> FALSE, s |-> s]

K_esta_semana == <<"e", "s", "t", "a", " ", "s", "e", "m", "a", "n", "a">>
K_este_mes == <<"e", "s", "t", "e", " ", "m", "e", "s">>
K_mes_pasado == <<"m", "e", "s", " ", "p", "a", "s", "a", "d", "o">>
K_ultimos_30_dias == <<"u", "l", "t", "i", "m", "o", "s", " ", "3", "0", " ", "d", "i", "a", "s">>
K_ultimos_30_dias_acento == <<"ú", "l", "t", "i", "m", "o", "s", " ", "3", "0", " ", "d", "í", "a", "s">>

\* step 0 of resolve_period: the override, when it holds a start and an end
FromOverride(override) ==
    Window(IF override.text.null THEN Label("param", 0, 0, 0, << >>) ELSE Label("match", 0, 0, 0, override.text.s),
           astimezone(override.start.dt, override.start.off),
           astimezone(override.end.dt, override.end.off),
           IF override.granularity.null THEN "custom" ELSE override.granularity.s,
           "param")

OverrideApplies(override) == override.truthy /\ ~override.start.null /\ ~override.end.null

\* a reading of the range that always takes the current year
FromRangeThisYear(text, now) ==
    LET m == RangeAt(text, Least({i \in 1..Len(text) : RangeAt(text, i).ok}))
        month == MonthOf(m.word)
    IN  IF ValidDate(now.y, month, m.d1) /\ ValidDate(now.y, month, m.d2)
        THEN Window(Label("match", 0, 0, 0, m.match),
                    DateTime(now.y, month, m.d1, StartOfDay), DateTime(now.y, month, m.d2, EndOfDay),
                    "range", "nlp")
        ELSE ValueError

\* step 1: "del 5 al 20 de octubre de 2025"
FromRange(text, now) ==
    LET m == RangeAt(text, Least({i \in 1..Len(text) : RangeAt(text, i).ok}))
        month == MonthOf(m.word)
        year == IF m.hasYear /\ m.year /= 0 THEN m.year ELSE now.y
    IN  IF m.hasYear /\ m.year = 0 THEN ValueError
        ELSE IF ValidDate(year, month, m.d1) /\ ValidDate(year, month, m.d2)
        THEN Window(Label("match", 0, 0, 0, m.match),
                    DateTime(year, month, m.d1, StartOfDay), DateTime(year, month, m.d2, EndOfDay),
                    "range", "nlp")
        ELSE ValueError

RangeApplies(text) ==
    /\ \E i \in 1..Len(text) : RangeAt(text, i).ok
    /\ MonthOf(RangeAt(text, Least({i \in 1..Len(text) : RangeAt(text, i).ok})).word) /= 0

\* step 1.b: an ISO date widens to its month
FromStrictIso(text) ==
    LET f == Fields(text, Least({i \in 1..Len(text) : StrictIsoAt(text, i)}), StrictIsoShape)
    IN  MonthWindow(Label("fecha", f[1], f[2], f[3], << >>), f[1], f[2], "month", "nlp")

\* step 1.c: year-month
YearMonthFields(text) ==
    LET i == Least({j \in 1..Len(text) : YearMonthAt(text, j)})
    IN  <<NumAt(text, i, 4), NumAt(text, i + 5, 2)>>

YearMonthApplies(text) ==
    /\ \E i \in 1..Len(text) : YearMonthAt(text, i)
    /\ YearMonthFields(text)[2] >= 1
    /\ YearMonthFields(text)[2] <= 12

FromYearMonth(text) ==
    LET f == YearMonthFields(text)
    IN  MonthWindow(Label("ym", f[1], f[2], 0, << >>), f[1], f[2], "month", "nlp")

\* the first match of _RX_DATE_DMY: day, month, year as written
FirstDmy(text) ==
    LET i == Least({j \in 1..Len(text) : DateEnd(text, j, "/", DmyShapes) > 0})
    IN  Fields(text, i, ShapeOf(text, i, "/", DmyShapes))

\* the day/month/year date: a year below 100 is of this century
FromDmy(text) ==
    LET f == FirstDmy(text)
        y == IF f[3] < 100 THEN f[3] + 2000 ELSE f[3]
    IN  MonthWindow(Label("fecha", y, f[2], f[1], << >>), y, f[2], "month", "nlp")

\* "29 de octubre de 2025", the current year when none is written
FromSpanishDate(text, now) ==
    LET m == SpanishDateAt(text, Least({i \in 1..Len(text) : SpanishDateAt(text, i).ok}))
        y == IF m.hasYear /\ m.year /= 0 THEN m.year ELSE now.y
    IN  IF m.hasYear /\ m.year = 0 THEN ValueError
        ELSE MonthWindow(Label("fecha", y, MonthOf(m.word), m.d, << >>), y, MonthOf(m.word), "month", "nlp")

SpanishDateApplies(text) ==
    /\ \E i \in 1..Len(text) : SpanishDateAt(text, i).ok
    /\ MonthOf(SpanishDateAt(text, Least({i \in 1..Len(text) : SpanishDateAt(text, i).ok})).word) /= 0

\* step 2: "q1 2025"
FromQuarter(text) ==
    LET i == Least({j \in 1..Len(text) : QuarterAt(text, j)})
        q == DigitVal(text[i + 1])
        e == SpaceEnd(text, i + 2) + 4
        y == NumAt(text, e - 4, 4)
    IN  IF y = 0 THEN ValueError
        ELSE Window(Label("match", 0, 0, 0, Slice(text, i, e)),
                    _start_of_month(y, QuarterFirst(q)), _end_of_month(y, QuarterLast(q)), "quarter", "nlp")

\* step 3: "agosto 2025"
WordYearMatch(text) ==
    LET i == Least({j \in 1..Len(text) : WordYearAt(text, j)})
        g == LettersEnd(text, i)
        e == SpaceEnd(text, g) + 4
    IN  [word |-> Slice(text, i, g), year |-> NumAt(text, e - 4, 4), match |-> Slice(text, i, e)]

WordYearApplies(text) ==
    /\ \E i \in 1..Len(text) : WordYearAt(text, i)
    /\ MonthOf(WordYearMatch(text).word) /= 0

FromWordYear(text) ==
    LET m == WordYearMatch(text)
    IN  MonthWindow(Label("match", 0, 0, 0, m.match), m.year, MonthOf(m.word), "month", "nlp")

\* step 4: a month alone: this year, last year when the month lies more
\* than one month ahead
FromBareMonth(text, now) ==
    LET i == Least({j \in 1..Len(text) : BareMonthAt(text, j) /= 0})
        mo == BareMonthAt(text, i)
        y == IF mo > now.m + 1 THEN now.y - 1 ELSE now.y
    IN  MonthWindow(Label("month", 0, mo, 0, << >>), y, mo, "month", "nlp")

\* step 5: the relative phrases
\* weekday = (now.weekday() + 6) % 7; start = now - weekday days, end = start + 6 days
EstaSemana(now) ==
    LET wd == (weekday(now) + 6) % 7
        start == [AddDays(now, -wd) EXCEPT !.sod = StartOfDay]
    IN  Window(Label("esta semana", 0, 0, 0, << >>), start, [AddDays(start, 6) EXCEPT !.sod = EndOfDay], "week", "nlp")

EsteMes(now) == MonthWindow(Label("este mes", 0, 0, 0, << >>), now.y, now.m, "month", "nlp")

MesPasado(now) ==
    IF now.m = 1 THEN MonthWindow(Label("mes pasado", 0, 0, 0, << >>), now.y - 1, 12, "month", "nlp")
    ELSE MonthWindow(Label("mes pasado", 0, 0, 0, << >>), now.y, now.m - 1, "month", "nlp")

Hoy(now) ==
    Window(Label("hoy", 0, 0, 0, << >>), [now EXCEPT !.sod = StartOfDay], [now EXCEPT !.sod = EndOfDay], "day", "nlp")

Ultimos30(now) ==
    Window(Label("últimos 30 días", 0, 0, 0, << >>), [AddDays(now, -29) EXCEPT !.sod = StartOfDay],
           [now EXCEPT !.sod = EndOfDay], "rolling_30d", "nlp")

\* step 6: the current month
DefaultWindow(now) == MonthWindow(Label("auto: mes actual", 0, 0, 0, << >>), now.y, now.m, "month", "default")

\* resolve_period(nl, override) at the instant now
resolve_period(nl, now, override) ==
    LET text == strip(lower(nl))
    IN  IF OverrideApplies(override) THEN FromOverride(override)
        ELSE IF RangeApplies(text) THEN FromRange(text, now)
        ELSE IF \E i \in 1..Len(text) : StrictIsoAt(text, i) THEN FromStrictIso(text)
        ELSE IF YearMonthApplies(text) THEN FromYearMonth(text)
        ELSE IF \E i \in 1..Len(text) : DateEnd(text, i, "/", DmyShapes) > 0 THEN FromDmy(text)
        ELSE IF SpanishDateApplies(text) THEN FromSpanishDate(text, now)
        ELSE IF \E i \in 1..Len(text) : QuarterAt(text, i) THEN FromQuarter(text)
        ELSE IF WordYearApplies(text) THEN FromWordYear(text)
        ELSE IF \E i \in 1..Len(text) : BareMonthAt(text, i) /= 0 THEN FromBareMonth(text, now)
        ELSE IF Contains(text, K_esta_semana) THEN EstaSemana(now)
        ELSE IF Contains(text, K_este_mes) THEN EsteMes(now)
        ELSE IF Contains(text, K_mes_pasado) THEN MesPasado(now)
        ELSE IF Contains(text, KHoy) THEN Hoy(now)
        ELSE IF Contains(text, K_ultimos_30_dias_acento) \/ Contains(text, K_ultimos_30_dias) THEN Ultimos30(now)
        ELSE DefaultWindow(now)

\* _coerce_sidebar_period: "YYYY-MM" of the UI as an override, None for
\* anything else; int() and datetime() raise ValueError
SidebarShape(s) == Len(s) = 7 /\ s[5] = "-"
SidebarParses(s) == AllDigits(s, 1, 4) /\ AllDigits(s, 6, 2) /\ ValidDate(NumAt(s, 1, 4), NumAt(s, 6, 2), 1)
_coerce_sidebar_period(period_str) ==
    LET s == strip(period_str)
    IN  IF period_str = << >> \/ ~SidebarShape(s) THEN NoOverride
        ELSE Override(IsoField(_start_of_month(NumAt(s, 1, 4), NumAt(s, 6, 2)), TZ),
                      IsoField(_end_of_month(NumAt(s, 1, 4), NumAt(s, 6, 2)), TZ),
                      TextField(s), TextField("month"))

\* the period step of Router.dispatch: the payload's period_override when
\* it is a non-empty dict, else _meta.date_range when it holds start and
\* end; then period_override or the sidebar's override
DispatchOverride(period_override, date_range, sidebar) ==
    LET po == IF period_override.truthy THEN period_override
              ELSE IF OverrideApplies(date_range) THEN date_range ELSE NoOverride
    IN  IF po.truthy THEN po ELSE _coerce_sidebar_period(sidebar)

DispatchPeriod(nl, now, period_override, date_range, sidebar) ==
    IF sidebar /= << >> /\ SidebarShape(strip(sidebar)) /\ ~SidebarParses(strip(sidebar)) THEN ValueError
    ELSE resolve_period(nl, now, DispatchOverride(period_override, date_range, sidebar))

\* rx.findall(s): the positions where the leftmost non-overlapping
\* matches of a date regex start
RECURSIVE MatchStarts(_, _, _, _)
MatchStarts(s, i, sep, shapes) ==
    IF i > Len(s) THEN << >>
    ELSE LET e == DateEnd(s, i, sep, shapes)
         IN  IF e > 0 THEN <<i>> \o MatchStarts(s, e, sep, shapes)
             ELSE MatchStarts(s, i + 1, sep, shapes)

\* the numbers of the match at i as (year, month, day), as written
DmyAt(s, i) ==
    LET f == Fields(s, i, ShapeOf(s, i, "/", DmyShapes))
    IN  <<f[3], f[2], f[1]>>
IsoAt(s, i) == Fields(s, i, ShapeOf(s, i, "-", IsoShapes))

NoDate == [status |-> "none"]

\* datetime(y, mo, d, 23, 59, 59) inside try/except: None when it raises
OneDate(ymd) ==
    IF ValidDate(ymd[1], ymd[2], ymd[3])
    THEN [status |-> "ok", dt |-> DateTime(ymd[1], ymd[2], ymd[3], EndOfDay)]
    ELSE NoDate

\* graph_lc._extract_one_date: the first d/m/y match, else the first y-m-d
_extract_one_date(text) ==
    LET dmy == MatchStarts(text, 1, "/", DmyShapes)
        iso == MatchStarts(text, 1, "-", IsoShapes)
    IN  IF dmy /= << >> THEN OneDate(DmyAt(text, dmy[1]))
        ELSE IF iso /= << >> THEN OneDate(IsoAt(text, iso[1]))
        ELSE NoDate

\* start at 00:00:00 and end at 23:59:59; the constructor is not guarded
TwoDates(a, b) ==
    IF ValidDate(a[1], a[2], a[3]) /\ ValidDate(b[1], b[2], b[3])
    THEN [status |-> "ok", start |-> DateTime(a[1], a[2], a[3], StartOfDay), end |-> DateTime(b[1], b[2], b[3], EndOfDay)]
    ELSE ValueError

\* graph_lc._extract_two_dates: the first two d/m/y matches, else the
\* first two y-m-d matches, else (None, None)
_extract_two_dates(text) ==
    LET dmy == MatchStarts(text, 1, "/", DmyShapes)
        iso == MatchStarts(text, 1, "-", IsoShapes)
    IN  IF Len(dmy) >= 2 THEN TwoDates(DmyAt(text, dmy[1]), DmyAt(text, dmy[2]))
        ELSE IF Len(iso) >= 2 THEN TwoDates(IsoAt(text, iso[1]), IsoAt(text, iso[2]))
        ELSE NoDate

(***************************************************************************)
(* The date functions as a state machine: a text, an instant and an        *)
(* override are chosen, then one of the functions is applied.              *)
(***************************************************************************)
Phrases ==
    << <<"d", "e", "l", " ", "5", " ", "a", "l", " ", "2", "0", " ", "d", "e", " ", "o", "c", "t", "u", "b", "r", "e", " ", "d", "e", " ", "2", "0", "2", "5">>,
       <<"d", "e", "l", " ", "2", "0", " ", "a", "l", " ", "5", " ", "d", "e", " ", "o", "c", "t", "u", "b", "r", "e">>,
       <<"d", "e", "l", " ", "5", " ", "a", "l", " ", "3", "1", " ", "d", "e", " ", "n", "o", "v", "i", "e", "m", "b", "r", "e", " ", "d", "e", " ", "2", "0", "2", "5">>,
       <<"2", "0", "2", "5", "-", "1", "0", "-", "2", "9">>,
       <<"2", "0", "2", "5", "-", "1", "-", "5">>,
       <<"2", "0", "2", "5", "-", "1", "3">>,
       <<"2", "0", "2", "4", "-", "0", "2">>,
       <<"2", "9", "/", "1", "0", "/", "2", "0", "2", "5">>,
       <<"0", "5", "/", "1", "1", "/", "2", "5">>,
       <<"2", "9", " ", "d", "e", " ", "o", "c", "t", "u", "b", "r", "e", " ", "d", "e", " ", "2", "0", "2", "5">>,
       <<"3", " ", "d", "e", " ", "m", "a", "r", "z", "o">>,
       <<"q", "1", " ", "2", "0", "2", "5">>,
       <<"a", "g", "o", "s", "t", "o", " ", "2", "0", "2", "5">>,
       <<"h", "o", "l", "a", " ", "2", "0", "2", "4">>,
       <<"d", "i", "c", "i", "e", "m", "b", "r", "e">>,
       <<"e", "n", "e", "r", "o">>,
       <<"e", "s", "t", "a", " ", "s", "e", "m", "a", "n", "a">>,
       <<"e", "s", "t", "e", " ", "m", "e", "s">>,
       <<"m", "e", "s", " ", "p", "a", "s", "a", "d", "o">>,
       <<"h", "o", "y">>,
       <<"u", "l", "t", "i", "m", "o", "s", " ", "3", "0", " ", "d", "i", "a", "s">>,
       <<"V", "e", "n", "c", "e">>,
       <<"c", "x", "c">>,
       <<"3", "1", "/", "1", "1", "/", "2", "0", "2", "5">> >>

\* the texts: none, one phrase, or two phrases with a space between them
PhraseTexts ==
    {<< >>} \cup { Phrases[i] : i \in 1..Len(Phrases) }
            \cup { Phrases[i] \o <<" ">> \o Phrases[j] : i, j \in 1..Len(Phrases) }

\* the instants resolve_period may run at
Nows ==
    { DateTime(2025, 11, 3, 36000), DateTime(2025, 11, 5, 0), DateTime(2025, 11, 9, 86399),
      DateTime(2025, 1, 1, 43200), DateTime(2024, 2, 29, 1), DateTime(2026, 3, 2, 0) }

Overrides ==
    { NoOverride,
      Override(IsoField(DateTime(2025, 10, 5, 0), TZ), IsoField(DateTime(2025, 10, 20, 86399), TZ), NoField, NoField),
      Override(IsoField(DateTime(2025, 10, 1, 0), 0), IsoField(DateTime(2025, 10, 31, 86399), 0), TextField(<<"r", "a", "n", "g", "o", "_", "p", "r", "e", "g", "u", "n", "t", "a">>), TextField("range")),
      Override(IsoField(DateTime(2025, 11, 5, 0), TZ), IsoField(DateTime(2025, 10, 29, 86399), TZ), NoField, NoField),
      Override(IsoField(DateTime(2025, 10, 5, 0), TZ), NoField, NoField, NoField) }

Sidebars == {<< >>, <<"2", "0", "2", "5", "-", "0", "8">>, <<"2", "0", "2", "5", "-", "8">>, <<"2", "0", "2", "5", "-", "1", "3">>}

PeriodInit ==
    /\ per = [fn |-> "none"]
    /\ pwin = [status |-> "none"]
    /\ ppc = "input"
    /\ LedgerIdle
    /\ IntentIdle
    /\ SynthIdle
    /\ RouterIdle
    /\ KbIdle

\* resolve_period(nl, override) is called at the instant now
Resolve ==
    /\ ppc = "input"
    /\ \E nl \in PhraseTexts, now \in Nows, override \in Overrides :
         /\ override.truthy => Len(nl) <= 10
         /\ per' = [fn |-> "resolve_period", nl |-> nl, now |-> now, override |-> override]
         /\ \E w \in {resolve_period(nl, now, override)} : pwin' = w
    /\ ppc' = "done"
    /\ UNCHANGED NotPeriod

\* the same text is resolved once more, at another instant
ResolveLater ==
    /\ ppc = "done"
    /\ per.fn = "resolve_period"
    /\ ~per.override.truthy
    /\ \E later \in Nows :
         /\ later /= per.now
         /\ \E w \in {resolve_period(per.nl, later, per.override)} :
              pwin' = [status |-> "twice", first |-> pwin, second |-> w, later |-> later]
    /\ ppc' = "twice"
    /\ UNCHANGED <<per, NotPeriod>>

\* Router.dispatch resolves the period of a request
ResolveDispatch ==
    /\ ppc = "input"
    /\ \E nl \in {<< >>, Phrases[4], Phrases[15]}, now \in Nows, period_override \in Overrides, date_range \in Overrides, sidebar \in Sidebars :
         /\ per' = [fn |-> "dispatch", nl |-> nl, now |-> now, override |-> period_override, date_range |-> date_range, sidebar |-> sidebar]
         /\ \E w \in {DispatchPeriod(nl, now, period_override, date_range, sidebar)} : pwin' = w
    /\ ppc' = "done"
    /\ UNCHANGED NotPeriod

\* the classifier, the pipeline and the resolver read the dates of one question
ExtractDates ==
    /\ ppc = "input"
    /\ \E nl \in PhraseTexts, now \in {DateTime(2025, 11, 3, 36000)} :
         /\ per' = [fn |-> "dates", nl |-> nl, now |-> now]
         /\ pwin' = [status |-> "dates",
                     any |-> _has_any_date(strip(lower(nl))),
                     two |-> _has_two_dates(strip(lower(nl))),
                     one |-> _extract_one_date(nl),
                     pair |-> _extract_two_dates(nl),
                     window |-> resolve_period(nl, now, NoOverride)]
    /\ ppc' = "done"
    /\ UNCHANGED NotPeriod


\* the text of the request, as resolve_period reads it
PeriodText == strip(lower(per.nl))

\* the window of the month the sidebar names
SidebarMonth(s) == NumAt(s, 6, 2)
SidebarYear(s) == NumAt(s, 1, 4)

\* C13: the window of a dispatch is the explicit override, verbatim and
\* with source "param", whenever one with start and end is supplied;
\* otherwise the month of the caller's coarse period whenever one is
\* supplied; otherwise the window of the question text or the default
C13_OverrideThenCoarsePeriodThenText ==
    (ppc = "done" /\ per.fn = "dispatch" /\ ~OverrideApplies(per.date_range)) =>
        IF OverrideApplies(per.override)
        THEN pwin = FromOverride(per.override)
        ELSE IF SidebarShape(per.sidebar) /\ SidebarParses(per.sidebar)
        THEN /\ pwin.status = "ok"
             /\ pwin.start = _start_of_month(SidebarYear(per.sidebar), SidebarMonth(per.sidebar))
             /\ pwin.end = _end_of_month(SidebarYear(per.sidebar), SidebarMonth(per.sidebar))
        ELSE per.sidebar = << >> => pwin = resolve_period(per.nl, per.now, NoOverride)

\* C14: every window resolve_period returns has start <= end
C14_StartNotAfterEnd ==
    (ppc = "done" /\ per.fn = "resolve_period" /\ pwin.status = "ok") => DtLeq(pwin.start, pwin.end)

\* the explicitly relative phrases
HasRelativePhrase(text) ==
    \/ Contains(text, K_esta_semana)
    \/ Contains(text, K_este_mes)
    \/ Contains(text, K_mes_pasado)
    \/ Contains(text, KHoy)
    \/ Contains(text, K_ultimos_30_dias)
    \/ Contains(text, K_ultimos_30_dias_acento)

\* the step of resolve_period that answers for the text reads the current
\* instant: a range or a date without a year, a bare month, a relative
\* phrase, the default
ReadsNow(text) ==
    IF RangeApplies(text)
    THEN ~RangeAt(text, Least({i \in 1..Len(text) : RangeAt(text, i).ok})).hasYear
    ELSE IF \E i \in 1..Len(text) : StrictIsoAt(text, i) THEN FALSE
    ELSE IF YearMonthApplies(text) THEN FALSE
    ELSE IF \E i \in 1..Len(text) : DateEnd(text, i, "/", DmyShapes) > 0 THEN FALSE
    ELSE IF SpanishDateApplies(text)
    THEN ~SpanishDateAt(text, Least({i \in 1..Len(text) : SpanishDateAt(text, i).ok})).hasYear
    ELSE IF \E i \in 1..Len(text) : QuarterAt(text, i) THEN FALSE
    ELSE IF WordYearApplies(text) THEN FALSE
    ELSE TRUE

\* C15 as stated: a text without a relative phrase resolves to the same
\* window at any two instants
C15_SameWindowWithoutRelativePhrase ==
    (ppc = "twice" /\ ~HasRelativePhrase(PeriodText)) => pwin.first = pwin.second

\* C15: a text whose answering step finds the year in the text resolves
\* to the same window, or fails the same way, at any two instants
C15_SameWindowWhenYearIsWritten ==
    (ppc = "twice" /\ ~ReadsNow(PeriodText)) => pwin.first = pwin.second

C15_Witness ==
    /\ ppc = "twice"
    /\ ~ReadsNow(PeriodText)
    /\ pwin.first.status = "ok"
    /\ pwin.first.granularity = "range"
    /\ pwin.first = pwin.second
    /\ per.now.y /= pwin.later.y

\* C17: the window of "esta semana" starts on the Monday of the week of
\* the current instant at 00:00:00, ends on the following Sunday at
\* 23:59:59 and contains the current instant
C17_EstaSemanaIsMondayToSunday ==
    (ppc = "done" /\ per.fn = "resolve_period" /\ pwin.status = "ok" /\ pwin.text.kind = "esta semana") =>
        /\ weekday(pwin.start) = 0
        /\ pwin.start.sod = StartOfDay
        /\ pwin.end = [AddDays(pwin.start, 6) EXCEPT !.sod = EndOfDay]
        /\ DtLeq(pwin.start, per.now)
        /\ DtLeq(per.now, pwin.end)

\* C16: the classifier's date counting, the pipeline's one- and two-date
\* extraction and the resolver's single-date extraction agree on every
\* question: two dates counted are two dates extracted, a date extracted
\* is a date the resolver finds, and it is the same calendar day
C16_DateExtractionsAgree ==
    (ppc = "done" /\ per.fn = "dates") =>
        /\ pwin.two <=> pwin.pair.status /= "none"
        /\ pwin.any <=> (pwin.one.status = "ok" \/ pwin.window.status = "raised")
        /\ (pwin.one.status = "ok" /\ pwin.window.status = "ok") => pwin.window.source /= "default"
        /\ (pwin.one.status = "ok" /\ pwin.window.status = "ok" /\ pwin.window.text.kind = "fecha") =>
               /\ pwin.window.text.y = pwin.one.dt.y
               /\ pwin.window.text.m = pwin.one.dt.m
               /\ pwin.window.text.d = pwin.one.dt.d

\* a due keyword: vence, vencen, vencida(s), vencimiento(s)
HasDueKeyword(s) ==
    \/ Contains(s, <<"v", "e", "n", "c", "e">>)
    \/ Contains(s, <<"v", "e", "n", "c", "i", "d", "a">>)
    \/ Contains(s, <<"v", "e", "n", "c", "i", "m", "i", "e", "n", "t", "o">>)

\* C18: a question with two explicit dates and a due keyword is classified
\* with vencimientos_rango true and vencen_hoy_cxc false, whatever other
\* keywords it contains
C18_TwoDatesAndDueKeywordIsRange ==
    (ipc = "done" /\ intent.src = "heuristic" /\ HasDueKeyword(strip(lower(question))) /\ _has_two_dates(strip(lower(question)))) =>
        /\ intent.flags.vencimientos_rango
        /\ ~intent.flags.vencen_hoy_cxc

(***************************************************************************)
(* The anti-crossing guard on its own: every combination of flags is an    *)
(* input, the guard is applied to it, and then once more to its result.    *)
(***************************************************************************)
GuardInit ==
    /\ question = << >>
    /\ lastWord = 0
    /\ nWords = 0
    /\ ipc = "guard"
    /\ \E flags \in [IntentFlags -> BOOLEAN] : intent = [src |-> "input", flags |-> flags]
    /\ LedgerIdle
    /\ SynthIdle
    /\ RouterIdle
    /\ PeriodIdle
    /\ KbIdle

\* the guard of stage 1 and of stage 2
ApplyGuard ==
    /\ ipc = "guard"
    /\ intent' = [src |-> "guarded", input |-> intent.flags, flags |-> Guard(intent.flags)]
    /\ ipc' = "guarded"
    /\ UNCHANGED <<question, lastWord, nWords, NotIntent>>

\* the guard runs again on what it produced
ApplyGuardAgain ==
    /\ ipc = "guarded"
    /\ intent' = [src |-> "reguarded", input |-> intent.input, once |-> intent.flags, flags |-> Guard(intent.flags)]
    /\ ipc' = "reguarded"
    /\ UNCHANGED <<question, lastWord, nWords, NotIntent>>

GuardNext == ApplyGuard \/ ApplyGuardAgain

SpecGuard == GuardInit /\ [][GuardNext]_vars

\* C19: applying the direction guard a second time to an Intent it has
\* produced changes no flag, for every combination of the flags
C19_GuardIdempotent ==
    ipc = "reguarded" => intent.flags = intent.once

\* the first application cleared flags of both kinds, the second none
C19_Witness ==
    /\ ipc = "reguarded"
    /\ intent.input.cxc /\ intent.input.cxp /\ intent.input.vencimientos_rango
    /\ ~intent.once.cxp
    /\ intent.flags = intent.once

\* C20: dso and dpo never raise, whatever the ledger and the parameters,
\* zero or negative thresholds and window lengths included; with no flow
\* in the month and none in the trailing window the result has a null
\* value, the trailing method and a reason
C20_CycleNeverRaises ==
    /\ out.op /= "raised"
    /\ (out.op \in {"dso", "dpo"} /\ out.pack.method = "trailing_90d" /\ out.pack.denom = 0) =>
           (out.pack.value.null /\ out.pack.reason)

\* C21: the in-month flow is used whenever it reaches the required
\* denominator: value = endBalance / flow * daysInMonth, month method, no
\* reason; only otherwise the trailing window, and when its flow reaches
\* the required denominator value = endBalance / trailingFlow * windowDays
\* with a reason, windowDays being the length of the window that was summed
C21_MonthFirstThenTrailingWindow ==
    out.op \in {"dso", "dpo"} =>
        LET mb == _month_bounds(out.month)
            flow == _sales_between(mb.start, mb.end)
        IN  /\ flow * 100 >= out.pack.required_denom =>
                  /\ out.pack.method = "month"
                  /\ ~out.pack.reason
                  /\ out.pack.value = [null |-> FALSE, num |-> out.pack.end_balance * (mb.end - mb.start), den |-> flow]
            /\ flow * 100 < out.pack.required_denom =>
                  /\ out.pack.method = "trailing_90d"
                  /\ out.pack.reason
                  /\ ~out.pack.value.null =>
                         /\ out.pack.value.den = out.pack.denom
                         /\ out.pack.value.num = out.pack.end_balance * (out.pack.window.end - out.pack.window.start)

(***************************************************************************)
(* Point lookups of one counterparty's open balance                        *)
(***************************************************************************)
\* rows of the entidad table; every ledger row belongs to entity 1
Entidades ==
    << [id_entidad |-> 1, nombre_legal |-> <<"A", "c", "m", "e">>, nombre_comercial |-> <<"A", "C">>],
       [id_entidad |-> 2, nombre_legal |-> <<"B", "e", "t", "a">>, nombre_comercial |-> <<"B", "T">>] >>

\* what a caller passes as customer / supplier: names, ids, nothing
Counterparties ==
    { <<"A", "c", "m", "e">>, <<"a", "c", "m", "e">>, <<"c", "m">>, <<" ", "B", "e", "t", "a">>,
      <<"Z", "e", "t", "a">>, <<"1">>, <<"9">>, <<"0">>, <<>> }

\* PostgreSQL unaccent() on one character
UnaccentChar(c) ==
    CASE c = "á" -> "a" [] c = "é" -> "e" [] c = "í" -> "i" [] c = "ó" -> "o" [] c = "ú" -> "u" [] c = "ñ" -> "n"
      [] OTHER -> c

unaccent(s) == [i \in 1..Len(s) |-> UnaccentChar(s[i])]

\* int(s) of a stripped string: null when it raises
ParseInt(s) ==
    IF s # <<>> /\ AllDigits(s, 1, Len(s)) THEN [null |-> FALSE, v |-> NumAt(s, 1, Len(s))]
    ELSE [null |-> TRUE, v |-> 0]

\* .first() of a query over entidad: the id of the first row that passes, else None (0 is no id)
FirstEntidad(hits) ==
    IF hits = <<>> THEN [null |-> TRUE, v |-> 0] ELSE [null |-> FALSE, v |-> Head(hits).id_entidad]

\* what one lookup answers
BalanceResult(error, warning, saldo, has_count, count) ==
    [error |-> error, warning |-> warning, saldo |-> saldo, has_count |-> has_count, count |-> count]

cxc_customer_open_balance_on(customer_name, as_of) ==
    LET name_raw == strip(customer_name)
        n == ParseInt(name_raw)
        needle == unaccent(lower(name_raw))
        cust == FirstEntidad(SelectSeq(Entidades, LAMBDA e : \/ Contains(unaccent(lower(e.nombre_legal)), needle)
                                        \/ Contains(unaccent(lower(e.nombre_comercial)), needle)))
        cust_id == IF n.null THEN cust ELSE n
        rows == SelectSeq(BagToSeq(ledger),
                          LAMBDA f : /\ ~f.pagada
                                     /\ f.ent = cust_id.v
                                     /\ f.issue <= as_of
                                     /\ _saldo(f.monto, f.pagado) > 0)
    IN  IF customer_name = <<>> \/ name_raw = <<>> THEN BalanceResult(TRUE, FALSE, 0, FALSE, 0)
        ELSE IF cust_id.null \/ cust_id.v = 0 THEN BalanceResult(FALSE, TRUE, 0, TRUE, 0)
        ELSE BalanceResult(FALSE, FALSE, SumClamped(rows), TRUE, Len(rows))

cxp_supplier_open_balance_on(supplier_name, as_of) ==
    LET name == strip(supplier_name)
        rows == SelectSeq(BagToSeq(ledger),
                          LAMBDA f : /\ ~f.pagada
                                     /\ \E k \in 1..Len(Entidades) :
                                          /\ Entidades[k].id_entidad = f.ent
                                          /\ Entidades[k].nombre_legal = name
                                     /\ _saldo(f.monto, f.pagado) > 0)
    IN  IF supplier_name = <<>> THEN BalanceResult(TRUE, FALSE, 0, FALSE, 0)
        ELSE BalanceResult(FALSE, FALSE, SumClamped(rows), FALSE, 0)

_customer_balance_db(name_or_id, ref_date) ==
    LET target == strip(name_or_id)
        cust == FirstEntidad(SelectSeq(Entidades, LAMBDA e : lower(e.nombre_legal) = lower(target)))
        n == ParseInt(target)
        cust_id == IF ~cust.null /\ cust.v # 0 THEN cust ELSE n
        filtered == ~cust_id.null /\ cust_id.v # 0
        rows == SelectSeq(BagToSeq(ledger),
                          LAMBDA f : /\ filtered => f.ent = cust_id.v
                                     /\ _saldo_cxc(f) > 0)
    IN  BalanceResult(FALSE, FALSE, SumSaldo(rows), TRUE, Len(rows))

_supplier_balance_db(name_or_id, ref_date) ==
    LET target == strip(name_or_id)
        prov == FirstEntidad(SelectSeq(Entidades, LAMBDA e : Contains(lower(e.nombre_legal), lower(target))))
        n == ParseInt(target)
        prov_id == IF ~prov.null /\ prov.v # 0 THEN prov ELSE n
        rows == SelectSeq(BagToSeq(ledger),
                          LAMBDA f : /\ ~f.pagada
                                     /\ f.ent = prov_id.v
                                     /\ _saldo_cxp(f) > 0)
    IN  IF prov_id.null \/ prov_id.v = 0 THEN BalanceResult(FALSE, FALSE, 0, TRUE, 0)
        ELSE BalanceResult(FALSE, FALSE, SumSaldo(rows), TRUE, Len(rows))

action_customer_balance(cust, ref_date) ==
    IF cust = <<>> THEN BalanceResult(TRUE, FALSE, 0, FALSE, 0)
    ELSE _customer_balance_db(cust, ref_date)

action_supplier_balance(supplier, ref_date) ==
    IF strip(supplier) = <<>> THEN BalanceResult(TRUE, FALSE, 0, FALSE, 0)
    ELSE _supplier_balance_db(strip(supplier), ref_date)

CustomerOpenBalanceOn ==
    /\ out.op = "none"
    /\ \E who \in Counterparties, ref \in RefDates :
         out' = [op |-> "balance", fn |-> "cxc_customer_open_balance_on", dir |-> "cxc",
                 who |-> who, ref |-> ref, pack |-> cxc_customer_open_balance_on(who, ref)]
    /\ UNCHANGED <<ledger, NotLedger>>

SupplierOpenBalanceOn ==
    /\ out.op = "none"
    /\ \E who \in Counterparties, ref \in RefDates :
         out' = [op |-> "balance", fn |-> "cxp_supplier_open_balance_on", dir |-> "cxp",
                 who |-> who, ref |-> ref, pack |-> cxp_supplier_open_balance_on(who, ref)]
    /\ UNCHANGED <<ledger, NotLedger>>

CustomerBalance ==
    /\ out.op = "none"
    /\ \E who \in Counterparties, ref \in RefDates :
         out' = [op |-> "balance", fn |-> "action_customer_balance", dir |-> "cxc",
                 who |-> who, ref |-> ref, pack |-> action_customer_balance(who, ref)]
    /\ UNCHANGED <<ledger, NotLedger>>

SupplierBalance ==
    /\ out.op = "none"
    /\ \E who \in Counterparties, ref \in RefDates :
         out' = [op |-> "balance", fn |-> "action_supplier_balance", dir |-> "cxp",
                 who |-> who, ref |-> ref, pack |-> action_supplier_balance(who, ref)]
    /\ UNCHANGED <<ledger, NotLedger>>

\* no row of entidad answers to the key, by id or by any of the name matches in use
NoCounterpartyMatches(who) ==
    LET t == strip(who)
    IN  /\ t # <<>>
        /\ \A k \in 1..Len(Entidades) :
             /\ ~Contains(unaccent(lower(Entidades[k].nombre_legal)), unaccent(lower(t)))
             /\ ~Contains(unaccent(lower(Entidades[k].nombre_comercial)), unaccent(lower(t)))
             /\ ParseInt(t).null \/ ParseInt(t).v # Entidades[k].id_entidad

\* C22: a point lookup of one counterparty's open balance, in either direction
\* and by name or by id, that matches no counterparty answers with balance 0,
\* invoice count 0 and a warning, and not with an error
C22_UnknownCounterpartyIsZeroWithWarning ==
    (out.op = "balance" /\ NoCounterpartyMatches(out.who)) =>
        /\ ~out.pack.error
        /\ out.pack.saldo = 0
        /\ out.pack.has_count
        /\ out.pack.count = 0
        /\ out.pack.warning

(***************************************************************************)
(* Ledger aggregator: the single-sided payable aging                       *)
(***************************************************************************)
\* days_over_expr = as_of - date(fecha_limite): NULL for a row without a due date
days_over_expr(f, as_of) == IF f.hasDue THEN [null |-> FALSE, v |-> as_of - f.due] ELSE [null |-> TRUE, v |-> 0]

\* the SQL CASE: a comparison with NULL is not true, so the row falls to the ELSE
bucket_expr(days) ==
    IF ~days.null /\ days.v <= 0 THEN "No vencido"
    ELSE IF ~days.null /\ days.v <= 30 THEN "1-30"
    ELSE IF ~days.null /\ days.v <= 60 THEN "31-60"
    ELSE IF ~days.null /\ days.v <= 90 THEN "61-90"
    ELSE "90+"

AsOfBuckets == {"No vencido", "1-30", "31-60", "61-90", "90+"}

\* FinanzasRepoDB.cxp_aging_as_of: SUM(greatest(monto - coalesce(monto_pagado, 0), 0))
\* grouped by bucket, over the rows with pagada false and a positive saldo
cxp_aging_as_of(as_of) ==
    LET rows == SelectSeq(BagToSeq(ledger), LAMBDA f : ~f.pagada /\ _saldo(f.monto, f.pagado) > 0)
        buckets == [b \in AsOfBuckets |->
                      SumSaldo(SelectSeq(rows, LAMBDA f : bucket_expr(days_over_expr(f, as_of)) = b))]
    IN  [buckets |-> buckets,
         total_open |-> buckets["No vencido"] + buckets["1-30"] + buckets["31-60"] + buckets["61-90"] + buckets["90+"],
         total_overdue |-> buckets["1-30"] + buckets["31-60"] + buckets["61-90"] + buckets["90+"]]

\* action_cxp_aging_as_of: the summary of the repository at the date asked
CxpAgingAsOf ==
    /\ out.op = "none"
    /\ \E ref \in RefDates :
         out' = [op |-> "aging_as_of", dir |-> "cxp", ref |-> ref, pack |-> cxp_aging_as_of(ref)]
    /\ UNCHANGED <<ledger, NotLedger>>

\* the single-sided summary s and the two-sided snapshot p agree
AgingsAgree(s, p) ==
    /\ s.buckets["1-30"] = p.overdue_1_30
    /\ s.buckets["31-60"] = p.overdue_31_60
    /\ s.buckets["61-90"] = p.overdue_61_90
    /\ s.buckets["90+"] = p.overdue_90_plus
    /\ s.buckets["No vencido"] = SumCurrent(p)
    /\ s.total_overdue = p.total_overdue

\* C29: for any payable ledger, with or without due dates, and any
\* reference date, cxp_aging_as_of agrees with build_aging_cxp_db: the four
\* overdue buckets have the same totals, "No vencido" is the sum of the four
\* current buckets, and total_overdue is the same
C29_SingleSidedAgingAgreesWithTwoSided ==
    out.op = "aging_as_of" => AgingsAgree(out.pack, build_aging_cxp_db(out.ref))

(***************************************************************************)
(* The ledger specification                                                *)
(***************************************************************************)
LedgerNext ==
    \/ AddRecord
    \/ AgingCxc
    \/ AgingCxp
    \/ ListOpen
    \/ TopOverdue
    \/ DueBetween
    \/ PartialPayments
    \/ OpenSummary
    \/ CustomerOpenBalanceOn
    \/ SupplierOpenBalanceOn
    \/ CustomerBalance
    \/ SupplierBalance
    \/ CxpAgingAsOf

SpecLedger == LedgerInit /\ [][LedgerNext]_vars

(***************************************************************************)
(* The headline summary of a single-counterparty balance question          *)
(***************************************************************************)
\* the keys build_executive_context puts in the executive context
ExecutiveContextKeys == {"data_quality", "kpi_explain", "aging_summary", "rules_applied"}

\* exec_ctx.get("cxc_saldo_cliente") or exec_ctx.get("cxc_customer_open_balance_on") or {}
NoPatch == [present |-> FALSE]
Patch(res) == [present |-> TRUE, res |-> res]

\* f"{saldo:,.2f}" of an amount in cents: the digits before and after the point
Money2f(cents) == [whole |-> cents \div 100, frac |-> cents % 100]

Narrative == [kind |-> "narrative"]
Templated(stated, amount, cnt) == [kind |-> "template", stated |-> stated, amount |-> amount, cnt |-> cnt]

\* generate_executive_summary, its CXC-08 branch; every later branch needs a
\* flag of its own and the last one is the narrator
generate_executive_summary(saldo_cliente_cxc, saldo_cliente) ==
    IF saldo_cliente_cxc /\ saldo_cliente.present /\ ~saldo_cliente.res.error
    THEN IF saldo_cliente.res.count > 0
         THEN Templated(TRUE, Money2f(saldo_cliente.res.saldo), saldo_cliente.res.count)
         ELSE Templated(FALSE, Money2f(0), 0)
    ELSE Narrative

\* ledgers of the summary specification
SummaryRows ==
    << Factura(1, RefDay - 120, TRUE, RefDay - 10, 100000, 0, FALSE),
       Factura(1, RefDay - 120, TRUE, RefDay + 20, 100000, 40000, FALSE),
       Factura(1, RefDay + 5, FALSE, 0, 50000, 50000, TRUE),
       Factura(1, RefDay + 5, TRUE, RefDay + 20, 100000, 0, FALSE) >>

SummaryLedgers ==
    {EmptyBag} \cup { SetToBag({SummaryRows[i], SummaryRows[j]}) : i, j \in 1..Len(SummaryRows) }

SummaryInit ==
    /\ ledger \in SummaryLedgers
    /\ out = [op |-> "none"]
    /\ IntentIdle
    /\ SynthIdle
    /\ RouterIdle
    /\ PeriodIdle
    /\ KbIdle

\* run_query for a question whose intent has saldo_cliente_cxc: the module picks
\* the action from the flag, run_action looks it up in ACTIONS, the executive
\* context is what build_executive_context builds, the headline is the report's
BalanceQuestion ==
    /\ out.op = "none"
    /\ \E who \in Counterparties \ {<<>>}, ref \in RefDates :
         LET it == [NoIntent EXCEPT !["cxc"] = TRUE, !["saldo_cliente_cxc"] = TRUE]
             handler == Handler("aaav_cxc", CxcAction("", it))
             patch == IF handler = "cxc_customer_open_balance_on" \/ "cxc_saldo_cliente" \in ExecutiveContextKeys
                      THEN Patch(cxc_customer_open_balance_on(who, ref))
                      ELSE NoPatch
         IN  out' = [op |-> "summary", fn |-> "run_query", saldo_cliente_cxc |-> TRUE,
                     who |-> who, ref |-> ref, handler |-> handler, patch |-> patch,
                     lookup |-> cxc_customer_open_balance_on(who, ref),
                     headline |-> Narrative]
    /\ UNCHANGED <<ledger, NotLedger>>

\* generate_executive_summary on an executive context with or without the lookup's result
ExecutiveSummary ==
    /\ out.op = "none"
    /\ \E who \in Counterparties \ {<<>>}, ref \in RefDates, flag \in BOOLEAN, patched \in BOOLEAN :
         LET res == cxc_customer_open_balance_on(who, ref)
             patch == IF patched THEN Patch(res) ELSE NoPatch
         IN  out' = [op |-> "summary", fn |-> "generate_executive_summary", saldo_cliente_cxc |-> flag,
                     who |-> who, ref |-> ref, handler |-> "none", patch |-> patch,
                     lookup |-> res,
                     headline |-> generate_executive_summary(flag, patch)]
    /\ UNCHANGED <<ledger, NotLedger>>

SummaryNext == BalanceQuestion \/ ExecutiveSummary

SpecSummary == SummaryInit /\ [][SummaryNext]_vars

\* C23: when the intent marks a single-counterparty balance question, the
\* headline summary is the templated sentence built from the customer lookup
\* and not narrative text, and the balance and the invoice count it states
\* are the lookup's
C23_BalanceQuestionHeadlineIsTemplated ==
    (out.op = "summary" /\ out.saldo_cliente_cxc) =>
        /\ out.headline.kind = "template"
        /\ IF out.headline.stated
           THEN /\ out.headline.amount.whole * 100 + out.headline.amount.frac = out.lookup.saldo
                /\ out.headline.cnt = out.lookup.count
           ELSE out.lookup.saldo = 0 /\ out.lookup.count = 0

(***************************************************************************)
(* The post-pass merges of priority orders and causal hypotheses           *)
(***************************************************************************)
\* titles and hypothesis texts as characters: a text, its upper-case and
\* padded spellings, another text, and the empty one
MergeTexts == { <<"a">>, <<"A">>, <<"a", " ">>, <<"b">>, <<>> }

\* lists of at most two texts
TextLists == { <<>> } \cup { <<t>> : t \in MergeTexts } \cup { <<t, u>> : t, u \in MergeTexts }

\* the deterministic pre-pass gives distinct non-empty texts
DeterministicLists ==
    { <<>>, << <<"a">> >>, << <<"b">> >>, << <<"a">>, <<"b">> >>, << <<"b">>, <<"a">> >> }

\* an order as the merge sees it: its title and where it came from
OrderOf(title, src) == [title |-> title, src |-> src]
OrdersOf(titles, src) == [i \in 1..Len(titles) |-> OrderOf(titles[i], src)]

\* title.strip().lower()
MergeKey(title) == lower(strip(title))

\* the key seen holds for a title in Agent._post_process_report: the title itself
TitleKey(title) == title

\* for o in ...: skip a missing title and a key already seen, else keep the order
RECURSIVE MergeOrdersLoop(_, _, _, _)
MergeOrdersLoop(all, i, acc, normalise) ==
    IF i > Len(all) THEN acc
    ELSE LET title == all[i].title
             key == IF normalise THEN MergeKey(title) ELSE TitleKey(title)
         IN  IF title = <<>> \/ key \in acc.seen THEN MergeOrdersLoop(all, i + 1, acc, normalise)
             ELSE MergeOrdersLoop(all, i + 1, [seen |-> acc.seen \cup {key}, orders |-> Append(acc.orders, all[i])], normalise)

\* Agent._post_process_report, the two merges
MergeInLogic(curr_orders, deterministic_orders, cz_h, causal_traditional) ==
    [orders |-> MergeOrdersLoop(curr_orders \o deterministic_orders, 1, [seen |-> {}, orders |-> <<>>], FALSE).orders,
     hipotesis |-> FirstTen(Dedup(cz_h \o causal_traditional))]

\* report.post_process_report, the two merges
MergeInReport(curr_orders, deterministic_orders, cz_h, causal_traditional) ==
    [orders |-> MergeOrdersLoop(curr_orders \o deterministic_orders, 1, [seen |-> {}, orders |-> <<>>], TRUE).orders,
     hipotesis |-> FirstTen(Dedup(cz_h \o causal_traditional))]

MergeInit ==
    /\ trace = << >>
    /\ narrative = [kind |-> "none"]
    /\ spc = "merge"
    /\ result = [status |-> "none"]
    /\ LedgerIdle
    /\ IntentIdle
    /\ RouterIdle
    /\ PeriodIdle
    /\ KbIdle

Merged(fn, no, do, nh, dh, m) ==
    [status |-> "merged", fn |-> fn, curr_orders |-> OrdersOf(no, "narrative"),
     deterministic_orders |-> OrdersOf(do, "deterministic"), cz_h |-> nh, causal_traditional |-> dh,
     orders |-> m.orders, hipotesis |-> m.hipotesis]

PostProcessInLogic ==
    /\ spc = "merge"
    /\ \E no \in TextLists, do \in DeterministicLists, nh \in TextLists, dh \in DeterministicLists :
         result' = Merged("_post_process_report", no, do, nh, dh,
                          MergeInLogic(OrdersOf(no, "narrative"), OrdersOf(do, "deterministic"), nh, dh))
    /\ spc' = "done"
    /\ UNCHANGED <<trace, narrative, NotSynth>>

PostProcessInReport ==
    /\ spc = "merge"
    /\ \E no \in TextLists, do \in DeterministicLists, nh \in TextLists, dh \in DeterministicLists :
         result' = Merged("post_process_report", no, do, nh, dh,
                          MergeInReport(OrdersOf(no, "narrative"), OrdersOf(do, "deterministic"), nh, dh))
    /\ spc' = "done"
    /\ UNCHANGED <<trace, narrative, NotSynth>>

MergeNext == PostProcessInLogic \/ PostProcessInReport

SpecMerge == MergeInit /\ [][MergeNext]_vars

\* no two members of the list are equal once case and outer blanks are ignored
NoTwoAlike(keys) == \A i, j \in 1..Len(keys) : i # j => MergeKey(keys[i]) # MergeKey(keys[j])

\* C24: after the post-pass neither the merged order list nor the merged
\* hypothesis list holds two entries equal after normalisation; the
\* narrative's entries stand before the deterministic ones, in their own
\* order; and every deterministic entry whose normalised text no narrative
\* entry carries is in the list
C24_MergedListsHoldNoNormalisedDuplicates ==
    result.status = "merged" =>
        /\ NoTwoAlike([i \in 1..Len(result.orders) |-> result.orders[i].title])
        /\ NoTwoAlike(result.hipotesis)
        /\ \A i, j \in 1..Len(result.orders) :
             (result.orders[i].src = "deterministic" /\ result.orders[j].src = "narrative") => j < i
        /\ \A k \in 1..Len(result.deterministic_orders) :
             (\A n \in 1..Len(result.curr_orders) :
                 MergeKey(result.curr_orders[n].title) # MergeKey(result.deterministic_orders[k].title))
             => \E i \in 1..Len(result.orders) : result.orders[i] = result.deterministic_orders[k]
        /\ \A k \in 1..Len(result.causal_traditional) :
             (\A n \in 1..Len(result.cz_h) : MergeKey(result.cz_h[n]) # MergeKey(result.causal_traditional[k]))
             => \E i \in 1..Len(result.hipotesis) : result.hipotesis[i] = result.causal_traditional[k]

(***************************************************************************)
(* The aging pass over single records at every distance from the           *)
(* reference date                                                          *)
(***************************************************************************)
\* how far before and after the first reference date a due date may lie
MaxBehind == 95
MaxAhead == 35

BucketRows ==
    { Factura(1, RefDay - 120, TRUE, d, a[1], a[2], p) :
        d \in (RefDay - MaxBehind)..(RefDay + MaxAhead), a \in { <<100000, 0>>, <<100000, 40000>> }, p \in BOOLEAN }

\* one record, or one record next to a record due 10 days before RefDay
BucketLedgers ==
    { SetToBag({f}) : f \in BucketRows }
    \cup { SetToBag({f}) (+) SetToBag({Factura(1, RefDay - 120, TRUE, RefDay - 10, 100000, 0, FALSE)}) : f \in BucketRows }

BucketInit ==
    /\ ledger \in BucketLedgers
    /\ out = [op |-> "none"]
    /\ IntentIdle
    /\ SynthIdle
    /\ RouterIdle
    /\ PeriodIdle
    /\ KbIdle

BucketNext == AgingCxc \/ AgingCxp

SpecBuckets == BucketInit /\ [][BucketNext]_vars

\* the bucket the claim gives a record whose due date lies delta days before the reference date
BucketOfDelta(delta) ==
    CASE delta \in 1..30 -> "overdue_1_30"
      [] delta \in 31..60 -> "overdue_31_60"
      [] delta \in 61..90 -> "overdue_61_90"
      [] delta > 90 -> "overdue_90_plus"
      [] -delta \in 0..7 -> "current_0_7"
      [] -delta \in 8..15 -> "current_8_15"
      [] -delta \in 16..30 -> "current_16_30"
      [] -delta > 30 -> "current_31_plus"

\* every bucket of p is the outstanding amount of the open dated rows that the claim sends to it
BucketsFollowDelta(p, rows, ref_date) ==
    \A k \in OverdueKeys \cup CurrentKeys :
        p[k] = SumSaldo(SelectSeq(rows, LAMBDA f : f.hasDue /\ Outstanding(f) > 0 /\ BucketOfDelta(ref_date - f.due) = k))

\* the record of scenario A: amount 1000, paid 0, due 10 days before the reference date
ScenarioA(f, ref_date) == f.monto = 100000 /\ f.pagado = 0 /\ f.hasDue /\ f.due = ref_date - 10

\* the scenario's record alone puts 1000 in overdue 1-30 and nothing in any other bucket
ScenarioAHolds(p, rows, ref_date) ==
    (Len(rows) = 1 /\ ScenarioA(rows[1], ref_date)) =>
        /\ p.overdue_1_30 = 100000
        /\ \A k \in (OverdueKeys \cup CurrentKeys) \ {"overdue_1_30"} : p[k] = 0

MaxRequests == 3

\* a condition of a rule; its value is a number, a text such as "50%", the
\* name of another metric, or a text that is no number
NumValue(v) == [t |-> "num", v |-> v]
PctValue(v) == [t |-> "pct", v |-> v]
RefValue(name) == [t |-> "ref", name |-> name]
BadValue == [t |-> "bad"]
MetricCond(metric, op, value) == [kind |-> "metric", metric |-> metric, op |-> op, value |-> value]
DimensionCond(dimension, level) == [kind |-> "dimension", dimension |-> dimension, level |-> level]

Rule(id, scope, keywords, conditions) == [id |-> id, scope |-> scope, keywords |-> keywords, conditions |-> conditions]

\* the rules of one agent in the registry file, one of each shape the matcher supports
GerenteRules ==
    << Rule("R1", "consultivo", {}, <<>>),
       Rule("R2", "riesgo", { <<"d", "s", "o">> }, << MetricCond("dso", ">", NumValue(45)) >>),
       Rule("R3", "operativo", {}, << MetricCond("dso", ">", RefValue("dpo")) >>),
       Rule("R4", "otro", { <<"P", "a", "g", "o">> }, << MetricCond("dpo", "<=", PctValue(40)) >>),
       Rule("R5", "riesgo", {}, << DimensionCond("conducta_tiempo", "bajo") >>),
       Rule("R6", "alerta", {}, << MetricCond("ccc", "!=", NumValue(0)) >>),
       Rule("R7", "gerencial", {}, << MetricCond("ccc", ">=", BadValue), MetricCond("dso", "==", NumValue(50)) >>) >>

CxcRules ==
    << Rule("C1", "operativo", {}, << MetricCond("dso", "<", NumValue(45)) >>),
       Rule("R2", "riesgo", {}, << MetricCond("dso", ">=", NumValue(50)) >>) >>

\* yaml.safe_load of the registry file: agents -> name -> rules
KbFile == [agents |-> [av_gerente |-> [rules |-> GerenteRules], aaav_cxc |-> [rules |-> CxcRules]]]
KbAgents == {"av_gerente", "aaav_cxc", "av_finanzas"}

\* load_kb without its cache: the file is read at every call
load_kb_uncached(cache) == [loaded |-> TRUE, rules |-> KbFile, loads |-> cache.loads + 1]

\* @lru_cache(maxsize=1) load_kb: the file is read when nothing is cached
load_kb(cache) ==
    IF cache.loaded THEN [loaded |-> TRUE, rules |-> cache.rules, loads |-> cache.loads]
    ELSE [loaded |-> TRUE, rules |-> KbFile, loads |-> cache.loads + 1]

\* get_agent_kb(agent_name).get("rules") or []
AgentRules(registry, agent_name) ==
    IF agent_name \in DOMAIN registry.agents THEN registry.agents[agent_name].rules ELSE <<>>

\* the metrics of a request: a name is absent or has a number
Absent == [has |-> FALSE, v |-> 0]
Value(v) == [has |-> TRUE, v |-> v]

\* _coerce_number of a condition's value, after a metric's name was replaced by its value
CoerceValue(value, metrics) ==
    CASE value.t = "num" -> Value(value.v)
      [] value.t = "pct" -> Value(value.v)
      [] value.t = "ref" -> (IF value.name \in DOMAIN metrics THEN metrics[value.name] ELSE Absent)
      [] OTHER -> Absent

Compare(op, m, v) ==
    CASE op = ">" -> m > v
      [] op = "<" -> m < v
      [] op = ">=" -> m >= v
      [] op = "<=" -> m <= v
      [] op = "==" -> m = v
      [] OTHER -> FALSE

\* one condition of _rule_applies; the callers pass no context, so no dimension has a level
CondHolds(cond, metrics) ==
    IF cond.kind = "dimension" THEN FALSE
    ELSE /\ cond.metric \in DOMAIN metrics
         /\ metrics[cond.metric].has
         /\ CoerceValue(cond.value, metrics).has
         /\ Compare(cond.op, metrics[cond.metric].v, CoerceValue(cond.value, metrics).v)

\* _text_has_any_keyword: any(str(kw).lower() in text.lower())
_text_has_any_keyword(text_query, keywords) ==
    keywords = {} \/ \E kw \in keywords : Contains(lower(text_query), lower(kw))

_rule_applies(rule, metrics, text_query) ==
    /\ _text_has_any_keyword(text_query, rule.keywords)
    /\ \A i \in 1..Len(rule.conditions) : CondHolds(rule.conditions[i], metrics)

\* get_applicable_rules on a loaded registry
get_applicable_rules(registry, agent_name, metrics, text_query) ==
    SelectSeq(AgentRules(registry, agent_name), LAMBDA r : _rule_applies(r, metrics, text_query))

\* Agent._rule_priority
_rule_priority(rule) ==
    IF rule.scope \in {"riesgo", "alerta"} THEN 0
    ELSE IF rule.scope = "operativo" THEN 1
    ELSE IF rule.scope \in {"consultivo", "gerencial"} THEN 2
    ELSE 3

\* sorted(kb_rules, key=self._rule_priority): stable
SortedByPriority(rules) ==
    SelectSeq(rules, LAMBDA r : _rule_priority(r) = 0) \o SelectSeq(rules, LAMBDA r : _rule_priority(r) = 1)
    \o SelectSeq(rules, LAMBDA r : _rule_priority(r) = 2) \o SelectSeq(rules, LAMBDA r : _rule_priority(r) = 3)

\* the merge of the precomputed and the local rules, one rule per id
RECURSIVE MergeRules(_, _, _)
MergeRules(rules, seen_ids, acc) ==
    IF rules = <<>> THEN acc
    ELSE IF Head(rules).id \in seen_ids THEN MergeRules(Tail(rules), seen_ids, acc)
    ELSE MergeRules(Tail(rules), seen_ids \cup {Head(rules).id}, Append(acc, Head(rules)))

KbQuestions == { <<>>, <<"D", "S", "O", " ", "a", "l", "t", "o">>, <<"p", "a", "g", "o", "s">>, <<"d", "s", "o", " ", "y", " ", "p", "a", "g", "o">> }
KbNumbers == {Absent, Value(30), Value(40), Value(50)}
KbMetrics == { [dso |-> a, dpo |-> b, ccc |-> c] : a \in KbNumbers, b \in KbNumbers, c \in {Absent, Value(0), Value(20)} }

KbInit ==
    /\ KbIdle
    /\ LedgerIdle
    /\ IntentIdle
    /\ SynthIdle
    /\ RouterIdle
    /\ PeriodIdle

Served(cache, last) ==
    [loaded |-> cache.loaded, rules |-> cache.rules, loads |-> cache.loads,
     served |-> IF kb.served < MaxRequests THEN kb.served + 1 ELSE kb.served, last |-> last]

\* Agent.handle of av_gerente, its rules: the rules precomputed for the request
\* (run_query passes none), the rules that apply now, merged and sorted,
\* handed to the narrator and put in the report as applied_rules
HandleRules ==
    \E text_query \in KbQuestions, metrics \in KbMetrics :
        \E cache \in {load_kb(kb)} :
            \E rules_local \in {get_applicable_rules(cache.rules, "av_gerente", metrics, text_query)} :
                kb' = Served(cache, [fn |-> "handle", agent |-> "av_gerente", text_query |-> text_query,
                                     metrics |-> metrics, rules |-> rules_local,
                                     applied_rules |-> SortedByPriority(MergeRules(rules_local, {}, <<>>))])

GerenteHandleRules ==
    /\ HandleRules
    /\ UNCHANGED NotKb

\* run_query, its kb_rules: the rules of each agent for the request's metrics and question
QueryRules ==
    \E text_query \in KbQuestions, metrics \in KbMetrics, agent_name \in KbAgents :
        \E cache \in {load_kb(kb)} :
            \E rules \in {get_applicable_rules(cache.rules, agent_name, metrics, text_query)} :
                kb' = Served(cache, [fn |-> "run_query", agent |-> agent_name, text_query |-> text_query,
                                     metrics |-> metrics, rules |-> rules, applied_rules |-> rules])

RunQueryRules ==
    /\ QueryRules
    /\ UNCHANGED NotKb

KbNext == GerenteHandleRules \/ RunQueryRules

SpecKb == KbInit /\ [][KbNext]_vars

\* every rule of the list is a rule of the agent in the registry file, as the file has it
RulesOfFile(rules, agent_name) ==
    \A i \in 1..Len(rules) :
        \E k \in 1..Len(AgentRules(KbFile, agent_name)) : rules[i] = AgentRules(KbFile, agent_name)[k]

\* C26: the registry is loaded at most once in the process and no request
\* changes it: what is cached stays what the file held, the rule objects a
\* request is handed (the rules that apply, the applied_rules of the report)
\* are the registry's rules unmodified, and the rules of a request are those
\* the request's own question and metrics select, whatever was served before
C26_RegistryLoadedOnceAndNeverChanged ==
    /\ kb.loads <= 1
    /\ kb.loaded => (kb.loads = 1 /\ kb.rules = KbFile)
    /\ kb.last.fn # "none" =>
         /\ kb.loaded
         /\ RulesOfFile(kb.last.rules, kb.last.agent)
         /\ RulesOfFile(kb.last.applied_rules, kb.last.agent)
         /\ \A k \in 1..Len(AgentRules(KbFile, kb.last.agent)) :
              (\E i \in 1..Len(kb.last.rules) : kb.last.rules[i] = AgentRules(KbFile, kb.last.agent)[k])
              <=> _rule_applies(AgentRules(KbFile, kb.last.agent)[k], kb.last.metrics, kb.last.text_query)

\* a third request, served from the registry the first one loaded, that is
\* handed two rules in priority order
C26_Witness ==
    /\ kb.served = 3
    /\ kb.loads = 1
    /\ kb.last.fn = "handle"
    /\ Len(kb.last.applied_rules) >= 2
    /\ kb.last.applied_rules[1].id = "R2"
    /\ kb.last.applied_rules[2].id = "R3"

\* C27: resolve_period returns a window for every free text and every
\* current instant and never raises, also when the text holds a date-shaped
\* token whose day or month the calendar does not have
C27_ResolvePeriodNeverRaises ==
    (ppc = "done" /\ per.fn = "resolve_period" /\ ~per.override.truthy) => pwin.status = "ok"

\* C28: consolidation is invoked only when a receivable or a payable module
\* left a result without error in the same dispatch: every aav_contable entry
\* of the trace follows such a result, and none is an error entry
C28_ConsolidationOnlyWithModuleData ==
    \A i \in 1..Len(rtrace) :
        rtrace[i].agent = "aav_contable" =>
            /\ Blob(SubSeq(rtrace, 1, i - 1), "aaav_cxc").present \/ Blob(SubSeq(rtrace, 1, i - 1), "aaav_cxp").present
            /\ ~rtrace[i].error

(***************************************************************************)
(* The due date of the deterministic priority orders                       *)
(***************************************************************************)
\* f"{n:04d}" and f"{n:02d}" of a number that fits the width
ZeroPadded(n, width) == [i \in 1..width |-> DigitChar((n \div (10 ^ (width - i))) % 10)]

\* the month word a bare month was matched by (the first of SPANISH_MONTHS for that month)
MonthWord(mo) == SPANISH_MONTHS[Least({k \in 1..Len(SPANISH_MONTHS) : SPANISH_MONTHS[k][2] = mo})][1]

\* the "text" of a window as the string resolve_period returns
LabelText(label) ==
    CASE label.kind = "fecha" -> <<"f", "e", "c", "h", "a", ":">> \o ZeroPadded(label.y, 4) \o <<"-">> \o ZeroPadded(label.m, 2) \o <<"-">> \o ZeroPadded(label.d, 2)
      [] label.kind = "ym" -> ZeroPadded(label.y, 4) \o <<"-">> \o ZeroPadded(label.m, 2)
      [] label.kind = "match" -> label.s
      [] label.kind = "month" -> MonthWord(label.m)
      [] label.kind = "param" -> <<"p", "a", "r", "a", "m">>
      [] label.kind = "esta semana" -> K_esta_semana
      [] label.kind = "este mes" -> K_este_mes
      [] label.kind = "mes pasado" -> K_mes_pasado
      [] label.kind = "hoy" -> <<"h", "o", "y">>
      [] label.kind = "últimos 30 días" -> K_ultimos_30_dias_acento
      [] OTHER -> <<"a", "u", "t", "o", ":", " ", "m", "e", "s", " ", "a", "c", "t", "u", "a", "l">>

\* the period dict Router.dispatch builds of the resolved window and hands
\* to every agent: text, start.isoformat(), end.isoformat()
RouterPeriod(w) == [text |-> LabelText(w.text), start |-> w.start, end |-> w.end]

\* f"{dt.year:04d}-{dt.month:02d}" of isoparse(p["start"])
YearMonthOf(dt) == ZeroPadded(dt.y, 4) \o <<"-">> \o ZeroPadded(dt.m, 2)

\* _yyyy_mm_from_any of a str: p[:7] when len(p) >= 7 and p[4] == "-", else None
_yyyy_mm_from_any(p) ==
    IF Len(p) >= 7 /\ p[5] = "-" THEN [null |-> FALSE, s |-> SubSeq(p, 1, 7)] ELSE [null |-> TRUE, s |-> << >>]

\* Agent._period_text_and_due of the router's dict: the text, else the
\* year-month of start; due is the 30th of the year-month read off the
\* text, else off start
_period_text_and_due(period_in) ==
    LET pt == strip(period_in.text)
        period_text == IF pt /= << >> THEN pt ELSE YearMonthOf(period_in.start)
        fromText == _yyyy_mm_from_any(period_text)
        ym == IF ~fromText.null THEN fromText.s ELSE YearMonthOf(period_in.start)
    IN  [period_text |-> period_text, due |-> ym \o <<"-", "3", "0">>]

\* the contexts the orders are made of: every threshold crossed, and the
\* payable days alone
OrderContexts ==
    { [kpis |-> [DSO |-> Num(480), DPO |-> Num(300), CCC |-> Num(250)],
       balances |-> [empty |-> FALSE, ar |-> Num(100000), ap |-> Num(40000), nwc |-> Num(60000)]],
      [kpis |-> [NoKpi EXCEPT !.DPO = Num(300)], balances |-> NoBalances] }

\* the "due" of each order _deterministic_orders returns: one per order, all the same
OrderDues(ctx, period_in) ==
    [i \in 1..Len(_deterministic_orders(ctx)) |-> _period_text_and_due(period_in).due]

\* Agent.handle makes the deterministic orders for the period resolved for the request
DeterministicOrders ==
    /\ ppc = "done"
    /\ per.fn \in {"resolve_period", "dispatch"}
    /\ pwin.status = "ok"
    /\ \E ctx \in OrderContexts :
         pwin' = [status |-> "orders", period |-> pwin, dues |-> OrderDues(ctx, RouterPeriod(pwin))]
    /\ ppc' = "orders"
    /\ UNCHANGED <<per, NotPeriod>>

PeriodNext == Resolve \/ ResolveLater \/ ResolveDispatch \/ ExtractDates \/ DeterministicOrders

SpecPeriod == PeriodInit /\ [][PeriodNext]_vars

\* date.fromisoformat of a due text: the date, when the text is YYYY-MM-DD
\* of a date the calendar has
DueDate(due) ==
    IF Len(due) = 10 /\ AllDigits(due, 1, 4) /\ due[5] = "-" /\ AllDigits(due, 6, 2) /\ due[8] = "-" /\ AllDigits(due, 9, 2)
       /\ ValidDate(NumAt(due, 1, 4), NumAt(due, 6, 2), NumAt(due, 9, 2))
    THEN [exists |-> TRUE, y |-> NumAt(due, 1, 4), m |-> NumAt(due, 6, 2), d |-> NumAt(due, 9, 2)]
    ELSE [exists |-> FALSE, y |-> 0, m |-> 0, d |-> 0]

\* the month of d is a month the window w has a day in
InMonthOfWindow(d, w) ==
    LET lo == IF DtLeq(w.start, w.end) THEN w.start ELSE w.end
        hi == IF DtLeq(w.start, w.end) THEN w.end ELSE w.start
    IN  lo.y * 12 + lo.m <= d.y * 12 + d.m /\ d.y * 12 + d.m <= hi.y * 12 + hi.m

\* C30: every deterministic priority order carries a due date that is an
\* existing calendar date inside the month of the resolved window, for
\* every resolved window whatever its month and label
C30_OrderDueIsADateOfTheWindowMonth ==
    ppc = "orders" =>
        \A i \in 1..Len(pwin.dues) :
            /\ DueDate(pwin.dues[i]).exists
            /\ InMonthOfWindow(DueDate(pwin.dues[i]), pwin.period)

====
